---- MODULE Spec2Model ----
(***************************************************************************)
(* A model of the BPX image library (Backpack-Studio/BPX): the Image       *)
(* pixel buffer with its per-format codec (src/src/image.cpp), the         *)
(* PixelFormat queries (src/include/BPX/pixel.hpp) and the Image handle's  *)
(* ownership of its backing memory.                                        *)
(*                                                                         *)
(* Memory is modelled at the byte level: a buffer is a function from byte  *)
(* addresses 0..n-1 to bytes 0..255, 16-bit words are stored little-endian *)
(* and a pixel access at offset o touches the bytes the source's pointer   *)
(* arithmetic touches.  Single-precision arithmetic is modelled exactly    *)
(* (IEEE 754 binary32, round to nearest even) on positive values.          *)
(***************************************************************************)
EXTENDS Integers, Sequences, FiniteSets, TLC

----------------------------------------------------------------------------
(* IEEE 754 binary32 values >= 0: [m, e] stands for m * 2^e, with          *)
(* 2^23 <= m < 2^24 (normalised) or m = 0.  The values the library         *)
(* computes stay far from the subnormal and the overflow range.            *)

FZero == [m |-> 0, e |-> 0]

RECURSIVE BitLen(_)
BitLen(n) == IF n = 0 THEN 0 ELSE 1 + BitLen(n \div 2)

\* P / 2^s rounded to the nearest integer, ties to even.
RoundShift(P, s) ==
    IF s = 0 THEN P
    ELSE LET kept == P \div (2^s)
             rem  == P % (2^s)
             half == 2^(s - 1)
         IN IF rem > half \/ (rem = half /\ kept % 2 = 1) THEN kept + 1 ELSE kept

\* The binary32 value nearest to P * 2^e (0 <= P < 2^31).
FNormalize(P, e) ==
    IF P = 0 THEN FZero
    ELSE LET bl == BitLen(P)
         IN IF bl <= 24
            THEN [m |-> P * 2^(24 - bl), e |-> e - (24 - bl)]
            ELSE LET s == bl - 24
                     k == RoundShift(P, s)
                 IN IF k = 2^24
                    THEN [m |-> 2^(23), e |-> e + s + 1]
                    ELSE [m |-> k, e |-> e + s]

\* int -> float conversion (exact for |n| < 2^24).
IntToFloat(n) == FNormalize(n, 0)

\* a * b, rounded once.  The 48-bit product is formed from 12-bit limbs.
FMul(a, b) ==
    IF a.m = 0 \/ b.m = 0 THEN FZero
    ELSE LET ah == a.m \div 4096
             al == a.m % 4096
             bh == b.m \div 4096
             bl == b.m % 4096
             low  == al * bl
             mid  == ah * bl + al * bh
             high == ah * bh
             T    == low + (mid % 4096) * 4096
             lo24 == T % (2^24)
             hi   == high + (mid \div 4096) + (T \div (2^24))
             e    == a.e + b.e
         IN IF hi >= 2^23
            THEN LET up == (lo24 > 2^23) \/ (lo24 = 2^23 /\ hi % 2 = 1)
                     k  == IF up THEN hi + 1 ELSE hi
                 IN IF k = 2^24 THEN [m |-> 2^23, e |-> e + 25]
                                ELSE [m |-> k, e |-> e + 24]
            ELSE LET kept == hi * 2 + (lo24 \div (2^23))
                     rem  == lo24 % (2^23)
                     up   == (rem > 2^22) \/ (rem = 2^22 /\ kept % 2 = 1)
                     k    == IF up THEN kept + 1 ELSE kept
                 IN IF k = 2^24 THEN [m |-> 2^23, e |-> e + 24]
                                ELSE [m |-> k, e |-> e + 23]

\* a + b, rounded once (guard, round and sticky bits below the larger operand).
FAdd(a, b) ==
    IF a.m = 0 THEN b
    ELSE IF b.m = 0 THEN a
    ELSE LET x == IF a.e >= b.e THEN a ELSE b
             y == IF a.e >= b.e THEN b ELSE a
             d == x.e - y.e
             Y8 == y.m * 8
             ys == IF d >= 27 THEN 1
                   ELSE LET q == Y8 \div (2^d)
                            sticky == (Y8 % (2^d)) # 0
                        IN IF sticky /\ q % 2 = 0 THEN q + 1 ELSE q
         IN FNormalize(x.m * 8 + ys, x.e - 3)

\* a - b for a >= b >= 0, rounded once.
FSub(a, b) ==
    IF b.m = 0 THEN a
    ELSE LET d  == a.e - b.e
             Y8 == b.m * 8
             ys == IF d >= 27 THEN 1
                   ELSE LET q == Y8 \div (2^d)
                            sticky == (Y8 % (2^d)) # 0
                        IN IF sticky /\ q % 2 = 0 THEN q + 1 ELSE q
         IN FNormalize(a.m * 8 - ys, a.e - 3)

\* a / b, rounded once: long division to 26 quotient bits plus a sticky bit.
RECURSIVE DivBits(_, _, _, _)
DivBits(r, d, q, n) ==
    IF n = 0 THEN [q |-> q, r |-> r]
    ELSE IF 2 * r >= d THEN DivBits(2 * r - d, d, 2 * q + 1, n - 1)
                       ELSE DivBits(2 * r, d, 2 * q, n - 1)

FDiv(a, b) ==
    IF a.m = 0 THEN FZero
    ELSE LET first == IF a.m >= b.m THEN [q |-> 1, r |-> a.m - b.m, e |-> 0]
                                    ELSE [q |-> 0, r |-> a.m, e |-> 0]
             res   == DivBits(first.r, b.m, first.q, 26)
             P     == IF res.r # 0 /\ res.q % 2 = 0 THEN res.q + 1 ELSE res.q
         IN FNormalize(P, a.e - b.e - 26)

\* static_cast to an integer type: truncation toward zero.
FTrunc(f) ==
    IF f.m = 0 THEN 0
    ELSE IF f.e >= 0 THEN f.m * 2^(f.e)
    ELSE IF -f.e > 30 THEN 0
    ELSE f.m \div (2^(-f.e))

\* std::round: to the nearest integer, halfway cases away from zero.
FRound(f) ==
    IF f.m = 0 THEN 0
    ELSE IF f.e >= 0 THEN f.m * 2^(f.e)
    ELSE IF -f.e > 30 THEN 0
    ELSE (f.m + 2^(-f.e - 1)) \div (2^(-f.e))

----------------------------------------------------------------------------
(* Bit operations on non-negative integers, as C computes them.            *)

RECURSIVE BitAnd(_, _)
BitAnd(x, y) ==
    IF x = 0 \/ y = 0 THEN 0
    ELSE (IF x % 2 = 1 /\ y % 2 = 1 THEN 1 ELSE 0) + 2 * BitAnd(x \div 2, y \div 2)

RECURSIVE BitOr(_, _)
BitOr(x, y) ==
    IF x = 0 THEN y
    ELSE IF y = 0 THEN x
    ELSE (IF x % 2 = 1 \/ y % 2 = 1 THEN 1 ELSE 0) + 2 * BitOr(x \div 2, y \div 2)

Shl(x, n) == x * 2^n
Shr(x, n) == x \div 2^n

\* Conversions to the unsigned integer types.
U8(x)  == x % 256
U16(x) == x % 65536

----------------------------------------------------------------------------
(* Color (src/include/BPX/color.hpp).                                       *)

Channel == 0..255

Color(r, g, b, a) == [r |-> r, g |-> g, b |-> b, a |-> a]

\* Color's default constructor: transparent black.
ColorDefault == Color(0, 0, 0, 0)

BLANK == Color(0, 0, 0, 0)
RED   == Color(255, 0, 0, 255)

\* The literals 0.299f, 0.587f, 0.114f as binary32 values.
KLumR == [m |-> 10032775, e |-> -25]
KLumG == [m |-> 9848226, e |-> -24]
KLumB == [m |-> 15300821, e |-> -27]

\* 0.299f * r + 0.587f * g + 0.114f * b, converted to uint8_t.
luminance_value(color) ==
    U8(FTrunc(FAdd(FAdd(FMul(KLumR, IntToFloat(color.r)),
                        FMul(KLumG, IntToFloat(color.g))),
                   FMul(KLumB, IntToFloat(color.b)))))

----------------------------------------------------------------------------
(* PixelFormat (src/include/BPX/pixel.hpp).                                 *)

PixelFormat ==
    { "L_U8", "L_F16", "L_F32", "LA_U8", "LA_F16", "LA_F32",
      "RGB_565", "BGR_565", "RGB_U8", "BGR_U8", "RGB_F16", "BGR_F16",
      "RGB_F32", "BGR_F32",
      "RGBA_5551", "BGRA_5551", "RGBA_4444", "BGRA_4444", "RGBA_U8", "BGRA_U8",
      "RGBA_F16", "BGRA_F16", "RGBA_F32", "BGRA_F32" }

pixel_size(format) ==
    CASE format = "L_U8" -> 1
      [] format \in {"L_F16", "LA_U8"} -> 2
      [] format \in {"RGB_U8", "BGR_U8"} -> 3
      [] format \in {"L_F32", "LA_F16", "RGB_565", "BGR_565"} -> 4
      [] format \in {"RGB_F16", "BGR_F16"} -> 6
      [] format = "LA_F32" -> 8
      [] format \in {"RGB_F32", "BGR_F32"} -> 12
      [] format \in {"RGBA_5551", "BGRA_5551", "RGBA_4444", "BGRA_4444"} -> 16
      [] format \in {"RGBA_U8", "BGRA_U8"} -> 32
      [] format \in {"RGBA_F16", "BGRA_F16"} -> 64
      [] format \in {"RGBA_F32", "BGRA_F32"} -> 128
      [] OTHER -> 0

pixel_comp(format) ==
    CASE format \in {"L_U8", "L_F16", "L_F32"} -> 1
      [] format \in {"LA_U8", "LA_F16", "LA_F32"} -> 2
      [] format \in {"RGB_565", "BGR_565", "RGB_U8", "BGR_U8",
                     "RGB_F16", "BGR_F16", "RGB_F32", "BGR_F32"} -> 3
      [] format \in {"RGBA_5551", "BGRA_5551", "RGBA_4444", "BGRA_4444",
                     "RGBA_U8", "BGRA_U8", "RGBA_F16", "BGRA_F16",
                     "RGBA_F32", "BGRA_F32"} -> 4
      [] OTHER -> 0

----------------------------------------------------------------------------
(* Typed memory access.  mem is a function from byte addresses to bytes;    *)
(* uint16_t and float objects are stored little-endian.                     *)

LoadU8(mem, addr)  == mem[addr]
LoadU16(mem, addr) == mem[addr] + 256 * mem[addr + 1]

StoreU8(mem, addr, v) == [mem EXCEPT ![addr] = v]
StoreU16(mem, addr, v) ==
    [mem EXCEPT ![addr] = v % 256, ![addr + 1] = v \div 256]

\* A binary32 object is kept as its two 16-bit halves [hi, lo] so that the
\* bit pattern never exceeds the integer range.
FloatToBits(f) ==
    IF f.m = 0 THEN [hi |-> 0, lo |-> 0]
    ELSE LET expo == f.e + 23 + 127
             frac == f.m - 2^23
         IN [hi |-> expo * 128 + frac \div 65536, lo |-> frac % 65536]

\* Values below 2^-126 (exponent field 0) are zero or subnormal; the library
\* only multiplies them by 255 and truncates, which yields 0 either way.
BitsToFloat(w) ==
    LET expo == (w.hi \div 128) % 256
        frac == (w.hi % 128) * 65536 + w.lo
    IN IF expo = 0 THEN FZero ELSE [m |-> 2^23 + frac, e |-> expo - 127 - 23]

LoadF32(mem, addr) ==
    BitsToFloat([hi |-> LoadU16(mem, addr + 2), lo |-> LoadU16(mem, addr)])

StoreF32(mem, addr, f) ==
    LET w == FloatToBits(f)
    IN StoreU16(StoreU16(mem, addr, w.lo), addr + 2, w.hi)

----------------------------------------------------------------------------
(* Half-float conversion (src/src/image.cpp, anonymous namespace).  A       *)
(* binary32 bit pattern with the sign bit clear fits the integer range.     *)

BitsOf(f) == LET w == FloatToBits(f) IN w.hi * 65536 + w.lo

float_to_half_i(ui) ==
    LET s  == BitAnd(Shr(ui, 16), 32768)
        em == BitAnd(ui, 2147483647)
        h0 == (em - Shl(112, 23) + Shl(1, 12)) \div 2^13
        h1 == IF em < Shl(113, 23) THEN 0 ELSE h0
        h2 == IF em >= Shl(143, 23) THEN 31744 ELSE h1
        h3 == IF em > Shl(255, 23) THEN 32256 ELSE h2
    IN U16(BitOr(s, h3))

half_to_float_i(h) ==
    LET em == BitAnd(h, 32767)
        r0 == Shl(em + Shl(112, 10), 13)
        r1 == IF em < Shl(1, 10) THEN 0 ELSE r0
        r2 == r1 + (IF em >= Shl(31, 10) THEN Shl(112, 23) ELSE 0)
    IN r2

float_to_half(f) == float_to_half_i(BitsOf(f))

\* half_to_float is declared to return uint32_t: the float it computes is
\* converted to an unsigned integer (truncated) on return.
half_to_float(y) ==
    LET bits == half_to_float_i(y)
    IN FTrunc(BitsToFloat([hi |-> bits \div 65536, lo |-> bits % 65536]))

----------------------------------------------------------------------------
(* The pixel codec (Image::get_unsafe / Image::set_unsafe).                 *)

\* sizeof the element type the format's case casts m_pixels to.
ElemSize(format) ==
    CASE format \in {"L_U8", "LA_U8", "RGB_U8", "BGR_U8", "RGBA_U8", "BGRA_U8"} -> 1
      [] format \in {"L_F16", "LA_F16", "RGB_F16", "BGR_F16", "RGBA_F16", "BGRA_F16",
                     "RGB_565", "BGR_565", "RGBA_5551", "BGRA_5551",
                     "RGBA_4444", "BGRA_4444"} -> 2
      [] format \in {"L_F32", "LA_F32", "RGB_F32", "BGR_F32", "RGBA_F32", "BGRA_F32"} -> 4

\* The factor the format's case multiplies the pixel offset by.
ElemsPerPixel(format) ==
    CASE format \in {"L_U8", "L_F16", "L_F32", "RGB_565", "BGR_565",
                     "RGBA_5551", "BGRA_5551", "RGBA_4444", "BGRA_4444"} -> 1
      [] format \in {"LA_U8", "LA_F16", "LA_F32"} -> 2
      [] format \in {"RGB_U8", "BGR_U8", "RGB_F16", "BGR_F16", "RGB_F32", "BGR_F32"} -> 3
      [] format \in {"RGBA_U8", "BGRA_U8", "RGBA_F16", "BGRA_F16",
                     "RGBA_F32", "BGRA_F32"} -> 4

\* The address with the offset counted in elements instead of pixels.
ElemAddrInElements(format, offset, i) == ElemSize(format) * (offset + i)

\* Byte address of element i of the pixel at the given offset.
ElemAddr(format, offset, i) == ElemSize(format) * (ElemsPerPixel(format) * offset + i)

\* Bytes between the pixels at consecutive offsets.
AccessStride(format) == ElemAddr(format, 1, 0) - ElemAddr(format, 0, 0)

\* static_cast<uint8_t>(255 * x) for a stored float x.
DecodeF32(mem, addr) == U8(FTrunc(FMul(IntToFloat(255), LoadF32(mem, addr))))
\* static_cast<uint8_t>(255 * half_to_float(x)) for a stored half x.
DecodeF16(mem, addr) == U8(255 * half_to_float(LoadU16(mem, addr)))
\* channel / 255.0f
EncodeF32(ch) == FDiv(IntToFloat(ch), IntToFloat(255))
EncodeF16(ch) == float_to_half(EncodeF32(ch))

\* Quantize as it would be without std::round: the cast alone truncates.
QuantizeTruncating(ch, max) ==
    U16(FTrunc(FMul(IntToFloat(ch), FDiv(IntToFloat(max), IntToFloat(255)))))

\* static_cast<uint16_t>(std::round(channel * (max / 255))) with max = 31.0f, ...
Quantize(ch, max) == U16(FRound(FMul(IntToFloat(ch), FDiv(IntToFloat(max), IntToFloat(255)))))

\* static_cast<uint8_t>(((pixel & mask) >> shift) * (255 / max))
Expand(pixel, mask, shift, max) == U8(Shr(BitAnd(pixel, mask), shift) * (255 \div max))

get_unsafe(mem, format, offset) ==
    LET A(i) == ElemAddr(format, offset, i)
    IN CASE format = "L_U8" ->
              LET gray == LoadU8(mem, A(0)) IN Color(gray, gray, gray, 255)
         [] format = "L_F16" ->
              LET gray == DecodeF16(mem, A(0)) IN Color(gray, gray, gray, 255)
         [] format = "L_F32" ->
              LET gray == DecodeF32(mem, A(0)) IN Color(gray, gray, gray, 255)
         [] format = "LA_U8" ->
              LET gray == LoadU8(mem, A(0)) IN Color(gray, gray, gray, LoadU8(mem, A(1)))
         [] format = "LA_F16" ->
              LET gray == DecodeF16(mem, A(0)) IN Color(gray, gray, gray, DecodeF16(mem, A(1)))
         [] format = "LA_F32" ->
              LET gray == DecodeF32(mem, A(0)) IN Color(gray, gray, gray, DecodeF32(mem, A(1)))
         [] format = "RGB_565" ->
              LET pixel == LoadU16(mem, A(0))
              IN Color(Expand(pixel, 63488, 11, 31), Expand(pixel, 2016, 5, 63),
                       Expand(pixel, 31, 0, 31), 255)
         [] format = "BGR_565" ->
              LET pixel == LoadU16(mem, A(0))
              IN Color(Expand(pixel, 31, 0, 31), Expand(pixel, 2016, 5, 63),
                       Expand(pixel, 63488, 11, 31), 255)
         [] format = "RGB_U8" ->
              Color(LoadU8(mem, A(0)), LoadU8(mem, A(1)), LoadU8(mem, A(2)), 255)
         [] format = "BGR_U8" ->
              Color(LoadU8(mem, A(2)), LoadU8(mem, A(1)), LoadU8(mem, A(0)), 255)
         [] format = "RGB_F16" ->
              Color(DecodeF16(mem, A(0)), DecodeF16(mem, A(1)), DecodeF16(mem, A(2)), 255)
         [] format = "BGR_F16" ->
              Color(DecodeF16(mem, A(2)), DecodeF16(mem, A(1)), DecodeF16(mem, A(0)), 255)
         [] format = "RGB_F32" ->
              Color(DecodeF32(mem, A(0)), DecodeF32(mem, A(1)), DecodeF32(mem, A(2)), 255)
         [] format = "BGR_F32" ->
              Color(DecodeF32(mem, A(2)), DecodeF32(mem, A(1)), DecodeF32(mem, A(0)), 255)
         [] format = "RGBA_5551" ->
              LET pixel == LoadU16(mem, A(0))
              IN Color(Expand(pixel, 63488, 11, 31), Expand(pixel, 1984, 6, 31),
                       Expand(pixel, 62, 1, 31), U8(BitAnd(pixel, 1) * 255))
         [] format = "BGRA_5551" ->
              LET pixel == LoadU16(mem, A(0))
              IN Color(Expand(pixel, 62, 1, 31), Expand(pixel, 1984, 6, 31),
                       Expand(pixel, 63488, 11, 31), U8(BitAnd(pixel, 1) * 255))
         [] format = "RGBA_4444" ->
              LET pixel == LoadU16(mem, A(0))
              IN Color(Expand(pixel, 61440, 12, 15), Expand(pixel, 3840, 8, 15),
                       Expand(pixel, 240, 4, 15), Expand(pixel, 15, 0, 15))
         [] format = "BGRA_4444" ->
              LET pixel == LoadU16(mem, A(0))
              IN Color(Expand(pixel, 240, 4, 15), Expand(pixel, 3840, 8, 15),
                       Expand(pixel, 61440, 12, 15), Expand(pixel, 15, 0, 15))
         [] format = "RGBA_U8" ->
              Color(LoadU8(mem, A(0)), LoadU8(mem, A(1)), LoadU8(mem, A(2)), LoadU8(mem, A(3)))
         [] format = "BGRA_U8" ->
              Color(LoadU8(mem, A(2)), LoadU8(mem, A(1)), LoadU8(mem, A(0)), LoadU8(mem, A(3)))
         [] format = "RGBA_F16" ->
              Color(DecodeF16(mem, A(0)), DecodeF16(mem, A(1)), DecodeF16(mem, A(2)),
                    DecodeF16(mem, A(3)))
         [] format = "BGRA_F16" ->
              Color(DecodeF16(mem, A(2)), DecodeF16(mem, A(1)), DecodeF16(mem, A(0)),
                    DecodeF16(mem, A(3)))
         [] format = "RGBA_F32" ->
              Color(DecodeF32(mem, A(0)), DecodeF32(mem, A(1)), DecodeF32(mem, A(2)),
                    DecodeF32(mem, A(3)))
         [] format = "BGRA_F32" ->
              Color(DecodeF32(mem, A(2)), DecodeF32(mem, A(1)), DecodeF32(mem, A(0)),
                    DecodeF32(mem, A(3)))
         [] OTHER -> ColorDefault

\* Stores of 1 to 4 consecutive elements of one type.
Store1U8(mem, format, offset, v0) == StoreU8(mem, ElemAddr(format, offset, 0), v0)
Store2U8(mem, format, offset, v0, v1) ==
    StoreU8(Store1U8(mem, format, offset, v0), ElemAddr(format, offset, 1), v1)
\* Store3U8 with the third element written over the second.
Store3U8Misplaced(mem, format, offset, v0, v1, v2) ==
    StoreU8(Store2U8(mem, format, offset, v0, v1), ElemAddr(format, offset, 1), v2)
Store3U8(mem, format, offset, v0, v1, v2) ==
    StoreU8(Store2U8(mem, format, offset, v0, v1), ElemAddr(format, offset, 2), v2)
Store4U8(mem, format, offset, v0, v1, v2, v3) ==
    StoreU8(Store3U8(mem, format, offset, v0, v1, v2), ElemAddr(format, offset, 3), v3)

Store1U16(mem, format, offset, v0) == StoreU16(mem, ElemAddr(format, offset, 0), U16(v0))
Store2U16(mem, format, offset, v0, v1) ==
    StoreU16(Store1U16(mem, format, offset, v0), ElemAddr(format, offset, 1), U16(v1))
Store3U16(mem, format, offset, v0, v1, v2) ==
    StoreU16(Store2U16(mem, format, offset, v0, v1), ElemAddr(format, offset, 2), U16(v2))
Store4U16(mem, format, offset, v0, v1, v2, v3) ==
    StoreU16(Store3U16(mem, format, offset, v0, v1, v2), ElemAddr(format, offset, 3), U16(v3))

Store1F32(mem, format, offset, v0) == StoreF32(mem, ElemAddr(format, offset, 0), v0)
Store2F32(mem, format, offset, v0, v1) ==
    StoreF32(Store1F32(mem, format, offset, v0), ElemAddr(format, offset, 1), v1)
Store3F32(mem, format, offset, v0, v1, v2) ==
    StoreF32(Store2F32(mem, format, offset, v0, v1), ElemAddr(format, offset, 2), v2)
Store4F32(mem, format, offset, v0, v1, v2, v3) ==
    StoreF32(Store3F32(mem, format, offset, v0, v1, v2), ElemAddr(format, offset, 3), v3)

\* The alpha threshold off by one: a >= 50 in place of a > 50.
Alpha5551Inclusive(color) == IF color.a >= 50 THEN 255 ELSE 0

\* The alpha bit of the 5551 formats as set_unsafe computes it.
Alpha5551(color) == IF color.a > 50 THEN 255 ELSE 0

\* (x << 11) | (y << 5) | z
Pack565(x, y, z) == BitOr(BitOr(Shl(x, 11), Shl(y, 5)), z)
\* (x << 11) | (y << 6) | (z << 1) | a
Pack5551(x, y, z, a) == BitOr(BitOr(BitOr(Shl(x, 11), Shl(y, 6)), Shl(z, 1)), a)
\* (x << 12) | (y << 8) | (z << 4) | a
Pack4444(x, y, z, a) == BitOr(BitOr(BitOr(Shl(x, 12), Shl(y, 8)), Shl(z, 4)), a)

set_unsafe(mem, format, offset, color) ==
    CASE format = "L_U8" ->
           Store1U8(mem, format, offset, luminance_value(color))
      [] format = "L_F16" ->
           Store1U16(mem, format, offset, EncodeF16(luminance_value(color)))
      [] format = "L_F32" ->
           Store1F32(mem, format, offset, EncodeF32(luminance_value(color)))
      [] format = "LA_U8" ->
           Store2U8(mem, format, offset, luminance_value(color), color.a)
      [] format = "LA_F16" ->
           Store2U16(mem, format, offset, EncodeF16(luminance_value(color)),
                     EncodeF16(color.a))
      [] format = "LA_F32" ->
           Store2F32(mem, format, offset, EncodeF32(luminance_value(color)),
                     EncodeF32(color.a))
      [] format = "RGB_565" ->
           Store1U16(mem, format, offset,
                     Pack565(Quantize(color.r, 31), Quantize(color.g, 63),
                             Quantize(color.b, 31)))
      [] format = "BGR_565" ->
           Store1U16(mem, format, offset,
                     Pack565(Quantize(color.b, 31), Quantize(color.g, 63),
                             Quantize(color.r, 31)))
      [] format = "RGB_U8" ->
           Store3U8(mem, format, offset, color.r, color.g, color.b)
      [] format = "BGR_U8" ->
           Store3U8(mem, format, offset, color.b, color.g, color.r)
      [] format = "RGB_F16" ->
           Store3U16(mem, format, offset, EncodeF16(color.r), EncodeF16(color.g),
                     EncodeF16(color.b))
      [] format = "BGR_F16" ->
           Store3U16(mem, format, offset, EncodeF16(color.b), EncodeF16(color.g),
                     EncodeF16(color.r))
      [] format = "RGB_F32" ->
           Store3F32(mem, format, offset, EncodeF32(color.r), EncodeF32(color.g),
                     EncodeF32(color.b))
      [] format = "BGR_F32" ->
           Store3F32(mem, format, offset, EncodeF32(color.b), EncodeF32(color.g),
                     EncodeF32(color.r))
      [] format = "RGBA_5551" ->
           Store1U16(mem, format, offset,
                     Pack5551(Quantize(color.r, 31), Quantize(color.g, 31),
                              Quantize(color.b, 31), Alpha5551(color)))
      [] format = "BGRA_5551" ->
           Store1U16(mem, format, offset,
                     Pack5551(Quantize(color.b, 31), Quantize(color.g, 31),
                              Quantize(color.r, 31), Alpha5551(color)))
      [] format = "RGBA_4444" ->
           Store1U16(mem, format, offset,
                     Pack4444(Quantize(color.r, 15), Quantize(color.g, 15),
                              Quantize(color.b, 15), Quantize(color.a, 15)))
      [] format = "BGRA_4444" ->
           Store1U16(mem, format, offset,
                     Pack4444(Quantize(color.b, 15), Quantize(color.g, 15),
                              Quantize(color.r, 15), Quantize(color.a, 15)))
      [] format = "RGBA_U8" ->
           Store4U8(mem, format, offset, color.r, color.g, color.b, color.a)
      [] format = "BGRA_U8" ->
           Store4U8(mem, format, offset, color.b, color.g, color.r, color.a)
      [] format = "RGBA_F16" ->
           Store4U16(mem, format, offset, EncodeF16(color.r), EncodeF16(color.g),
                     EncodeF16(color.b), EncodeF16(color.a))
      [] format = "BGRA_F16" ->
           Store4U16(mem, format, offset, EncodeF16(color.b), EncodeF16(color.g),
                     EncodeF16(color.r), EncodeF16(color.a))
      [] format = "RGBA_F32" ->
           Store4F32(mem, format, offset, EncodeF32(color.r), EncodeF32(color.g),
                     EncodeF32(color.b), EncodeF32(color.a))
      [] format = "BGRA_F32" ->
           Store4F32(mem, format, offset, EncodeF32(color.b), EncodeF32(color.g),
                     EncodeF32(color.r), EncodeF32(color.a))
      [] OTHER -> mem

----------------------------------------------------------------------------
(* Bounds of the model and the inputs the actions draw from.                *)

NumHandles == 2     \* Image objects of the program
MaxBufs    == 2     \* memory blocks allocated during one run
ImgW       == 2     \* width of every image
ImgH       == 2     \* height of every image
MaxWrites  == 1     \* calls that write pixels or bytes during one run
MaxRampPoints == 3  \* points of the longest initializer list and of a grown ramp

Handles == 1..NumHandles
BufIds  == 1..MaxBufs

nullptr == 0

\* A color for every value of every channel.
SampleColor(v) == Color(v, (7 * v + 13) % 256, 255 - v, (31 * v + 5) % 256)
SampleColors ==
    {SampleColor(v) : v \in Channel}
    \cup {BLANK, RED, Color(255, 128, 0, 255), Color(255, 255, 255, 255),
          Color(0, 0, 0, 255), Color(37, 37, 37, 255), Color(200, 200, 200, 50),
          Color(10, 20, 30, 51)}

\* Inputs of the ownership specification.
LifeFormats == {"RGBA_U8"}
LifeColors  == {RED}
LifeFill    == {60}
\* Colors the copy specification writes.
CopyColors  == {Color(0, 255, 0, 255), Color(1, 2, 3, 4)}
\* Inputs of the accessor specification.
AccessFormats == {"RGBA_U8", "RGB_565"}
AccessColors  == {RED, Color(100, 200, 0, 0)}
AccessModes   == {"REPLACE", "ADD"}
\* Bytes the caller fills and overwrites its own buffers with.
ExternBytes == {0, 60}
\* Content of a block std::malloc returns (indeterminate).
JunkBytes == {170}

----------------------------------------------------------------------------
(* State.                                                                   *)

VARIABLES
    heap,    \* memory blocks: [st, mem, owned, lent, frees]
    img,     \* Image objects: [st, m_pixels, m_format, m_w, m_h, m_owned, copied_from]
    signal,  \* what the last constructor raised: "none", "bad_alloc", "SIGSEGV",
             \* "invalid_argument"
    last,    \* the last operation, its arguments and its result
    arg,     \* the input of the run: a color, or the script of the scenario
    writes,  \* pixel and byte writes made so far
    ramp     \* the ColorRamp object: [st, m_use_dynamic, points]

vars == <<heap, img, signal, last, arg, writes, ramp>>

NoMem == [i \in {} |-> 0]
FillMem(n, v) == [i \in 0..(n - 1) |-> v]
MemSize(mem) == Cardinality(DOMAIN mem)

NoBuf == [st |-> "unused", mem |-> NoMem, owned |-> FALSE, lent |-> FALSE, frees |-> 0]
NoImage == [st |-> "none", m_pixels |-> nullptr, m_format |-> "L_U8", m_w |-> 0,
            m_h |-> 0, m_owned |-> FALSE, copied_from |-> 0]

\* No ColorRamp has been constructed.  points is m_static or m_dynamic, whichever
\* m_use_dynamic selects: a sequence of [color, position], the position in
\* eighths.
NoRamp == [st |-> "none", m_use_dynamic |-> FALSE, points |-> <<>>]

\* op, h, src, x, y, color, mode, ok: the last call and its arguments (a read keeps
\* the arguments of the last call that was not a read); rx, ry, ret: the
\* coordinates and the result of the last read.
NoOp == [op |-> "none", h |-> 0, src |-> 0, x |-> 0, y |-> 0, color |-> BLANK,
         mode |-> "REPLACE", ok |-> TRUE, rx |-> 0, ry |-> 0, ret |-> BLANK]

\* Image::size, Image::pitch, Image::data_size
size(im)      == im.m_w * im.m_h
pitch(im)     == im.m_w * pixel_size(im.m_format)
data_size(im) == im.m_h * pitch(im)

\* std::malloc hands out a block that is not in use.
FreshBuf == CHOOSE b \in BufIds : heap[b].st = "unused" /\ \A c \in 1..(b - 1) : heap[c].st # "unused"
CanMalloc == \E b \in BufIds : heap[b].st = "unused"

Running == signal = "none"

\* The pixels of an image, as get_unsafe reads them.
Pixels(hp, im) ==
    [o \in 0..(size(im) - 1) |-> get_unsafe(hp[im.m_pixels].mem, im.m_format, o)]

----------------------------------------------------------------------------
(* Construction, destruction and moves (src/src/image.cpp).                 *)

\* for (size_t i = 0; i < size; i++) set_unsafe(i, color);
RECURSIVE FillPixels(_, _, _, _)
FillPixels(mem, format, n, color) ==
    IF n = 0 THEN mem
    ELSE set_unsafe(FillPixels(mem, format, n - 1, color), format, n - 1, color)

\* std::memcpy(dst, src, n); bytes read past the end of src are indeterminate.
Memcpy(dst, src, n, junk) ==
    [i \in DOMAIN dst |-> IF i < n THEN (IF i \in DOMAIN src THEN src[i] ELSE junk)
                                   ELSE dst[i]]

NewImage(b, format, w, h, owned, from) ==
    [st |-> "live", m_pixels |-> b, m_format |-> format, m_w |-> w, m_h |-> h,
     m_owned |-> owned, copied_from |-> from]

LiveBuf(mem, owned, lent) ==
    [st |-> "live", mem |-> mem, owned |-> owned, lent |-> lent, frees |-> 0]

\* What follows a failed std::malloc in a constructor: the statement
\* "std::bad_alloc();" builds a temporary and throws nothing, and the constructor
\* goes on to write through the null pointer.  That write is undefined: the
\* process is killed, or the object comes to exist with a null m_pixels.
AfterFailedMalloc(h, format) ==
    /\ heap' = heap
    /\ \/ /\ signal' = "SIGSEGV"
          /\ img' = img
       \/ /\ signal' = "none"
          /\ img' = [img EXCEPT ![h] = NewImage(nullptr, format, ImgW, ImgH, TRUE, 0)]

\* Image::Image(int w, int h, Color color, PixelFormat format)
\* malloc returns a block of indeterminate content (every byte junk).
NewSolid(h, color, format, ok, junk) ==
    /\ Running
    /\ img[h].st = "none"
    /\ last' = [NoOp EXCEPT !.op = "NewSolid", !.h = h, !.color = color, !.ok = ok]
    /\ UNCHANGED <<arg, writes, ramp>>
    /\ IF ok
       THEN /\ CanMalloc
            /\ LET b    == FreshBuf
                   n    == ImgW * ImgH
                   raw  == FillMem(n * pixel_size(format), junk)
               IN /\ heap' = [heap EXCEPT ![b] =
                                LiveBuf(FillPixels(raw, format, n, color), TRUE, FALSE)]
                  /\ img' = [img EXCEPT ![h] = NewImage(b, format, ImgW, ImgH, TRUE, 0)]
            /\ signal' = "none"
       ELSE AfterFailedMalloc(h, format)

\* A copy that adopts the source block in place of allocating and copying.
CopyFromShared(h, src, format, ok, junk) ==
    /\ heap' = heap
    /\ img' = [img EXCEPT ![h] = NewImage(src, format, ImgW, ImgH, FALSE, src)]
    /\ signal' = "none"

\* The body of the copying constructor.  It copies w * h * pixel_size(format)
\* bytes: where the source block is shorter than that, the copy reads past its
\* end, which is undefined (the process is killed, or indeterminate bytes are
\* copied).
CopyFrom(h, src, format, ok, junk) ==
    IF ok
    THEN /\ CanMalloc
         /\ LET b   == FreshBuf
                n   == ImgW * ImgH * pixel_size(format)
                raw == FillMem(n, junk)
            IN \/ /\ heap' = [heap EXCEPT ![b] =
                                LiveBuf(Memcpy(raw, heap[src].mem, n, junk), TRUE, FALSE)]
                  /\ img' = [img EXCEPT ![h] = NewImage(b, format, ImgW, ImgH, TRUE, src)]
                  /\ signal' = "none"
               \/ /\ MemSize(heap[src].mem) < n
                  /\ heap' = heap
                  /\ img' = img
                  /\ signal' = "SIGSEGV"
    ELSE AfterFailedMalloc(h, format)

\* Image::Image(const void* pixels, int w, int h, PixelFormat format)
NewCopy(h, src, format, ok, junk) ==
    /\ Running
    /\ img[h].st = "none"
    /\ heap[src].st = "live"
    /\ ~heap[src].owned
    /\ MemSize(heap[src].mem) >= ImgW * ImgH * AccessStride(format)
    /\ last' = [NoOp EXCEPT !.op = "NewCopy", !.h = h, !.src = src, !.ok = ok]
    /\ UNCHANGED <<arg, writes, ramp>>
    /\ CopyFrom(h, src, format, ok, junk)

\* copy(image): Image(image.data(), image.width(), image.height(), image.format())
CopyImage(h, from, ok, junk) ==
    /\ Running
    /\ img[h].st = "none"
    /\ img[from].st = "live"
    /\ img[from].m_pixels # nullptr
    /\ heap[img[from].m_pixels].st = "live"
    /\ last' = [NoOp EXCEPT !.op = "CopyImage", !.h = h, !.src = img[from].m_pixels,
                            !.ok = ok]
    /\ UNCHANGED <<arg, writes, ramp>>
    /\ CopyFrom(h, img[from].m_pixels, img[from].m_format, ok, junk)

\* Image::Image(void* pixels, int w, int h, PixelFormat format, bool owned)
NewWrap(h, b, format, owned) ==
    /\ Running
    /\ img[h].st = "none"
    /\ heap[b].st = "live"
    /\ ~heap[b].owned
    /\ owned => ~heap[b].lent
    /\ MemSize(heap[b].mem) >= ImgW * ImgH * AccessStride(format)
    /\ heap' = [heap EXCEPT ![b].owned = owned, ![b].lent = ~owned]
    /\ img' = [img EXCEPT ![h] = NewImage(b, format, ImgW, ImgH, owned, 0)]
    /\ last' = [NoOp EXCEPT !.op = "NewWrap", !.h = h, !.src = b, !.ok = owned]
    /\ UNCHANGED <<signal, arg, writes, ramp>>

\* std::free(p)
Free(hp, b) == [hp EXCEPT ![b].st = "freed", ![b].mem = NoMem, ![b].frees = @ + 1]

\* Image::~Image
Destroy(h) ==
    /\ Running
    /\ img[h].st = "live"
    /\ heap' = IF img[h].m_owned /\ img[h].m_pixels # nullptr
               THEN Free(heap, img[h].m_pixels)
               ELSE heap
    /\ img' = [img EXCEPT ![h] = NoImage]
    /\ last' = [NoOp EXCEPT !.op = "Destroy", !.h = h, !.src = img[h].m_pixels]
    /\ UNCHANGED <<signal, arg, writes, ramp>>

\* A move that forgets to reset the object moved from.
MovedFromUntouched(im) == im

\* What a move leaves in the object moved from.
MovedFrom(im) == [im EXCEPT !.m_pixels = nullptr, !.m_owned = FALSE, !.copied_from = 0]

\* Image::Image(Image&& other)
MoveConstruct(h, other) ==
    /\ Running
    /\ img[h].st = "none"
    /\ img[other].st = "live"
    /\ img' = [img EXCEPT ![h] = img[other], ![other] = MovedFrom(img[other])]
    /\ last' = [NoOp EXCEPT !.op = "MoveConstruct", !.h = h, !.src = other]
    /\ UNCHANGED <<heap, signal, arg, writes, ramp>>

\* The fields operator=(Image&&) assigns when this != &other.
MoveAssignStep(im, h, other) ==
    [im EXCEPT ![h] = im[other], ![other] = MovedFrom(im[other])]

\* Image::operator=(Image&& other)
MoveAssign(h, other) ==
    /\ Running
    /\ img[h].st = "live"
    /\ img[other].st = "live"
    /\ img' = IF h # other THEN MoveAssignStep(img, h, other) ELSE img
    /\ last' = [NoOp EXCEPT !.op = "MoveAssign", !.h = h, !.src = other]
    /\ UNCHANGED <<heap, signal, arg, writes, ramp>>

----------------------------------------------------------------------------
(* The caller's own memory.                                                 *)

MaxExternAddr == 3

\* The caller allocates a block of n bytes for the pixels of an image.
ExternAlloc(n, fill) ==
    /\ Running
    /\ CanMalloc
    /\ heap' = [heap EXCEPT ![FreshBuf] = LiveBuf(FillMem(n, fill), FALSE, FALSE)]
    /\ last' = [NoOp EXCEPT !.op = "ExternAlloc", !.src = FreshBuf]
    /\ UNCHANGED <<img, signal, arg, writes, ramp>>

\* The caller writes one byte of a block it owns.
ExternWrite(b, addr, v) ==
    /\ Running
    /\ heap[b].st = "live"
    /\ ~heap[b].owned
    /\ addr \in DOMAIN heap[b].mem
    /\ heap[b].mem[addr] # v
    /\ heap' = [heap EXCEPT ![b].mem[addr] = v]
    /\ last' = [NoOp EXCEPT !.op = "ExternWrite", !.src = b, !.x = addr]
    /\ writes' = writes + 1
    /\ UNCHANGED <<img, signal, arg, ramp>>

----------------------------------------------------------------------------
(* Pixel access (src/include/BPX/image.hpp, src/src/image.cpp).             *)

\* The object refers to memory that can be accessed.
Usable(h) ==
    /\ img[h].st = "live"
    /\ img[h].m_pixels # nullptr
    /\ heap[img[h].m_pixels].st = "live"

\* The range test with its upper bounds off by one.
InRangeInclusive(im, x, y) == x >= 0 /\ x <= im.m_w /\ y >= 0 /\ y <= im.m_h

\* x >= 0 && x < width() && y >= 0 && y < height()
InRange(im, x, y) == x >= 0 /\ x < im.m_w /\ y >= 0 /\ y < im.m_h

PixelsOf(h) == heap[img[h].m_pixels].mem

\* Image::set_unsafe(size_t offset, Color color) on a valid offset
SetUnsafe(h, offset, color) ==
    /\ Running
    /\ Usable(h)
    /\ offset \in 0..(size(img[h]) - 1)
    /\ heap' = [heap EXCEPT ![img[h].m_pixels].mem =
                  set_unsafe(@, img[h].m_format, offset, color)]
    /\ last' = [NoOp EXCEPT !.op = "set_unsafe", !.h = h, !.x = offset, !.color = color]
    /\ writes' = writes + 1
    /\ UNCHANGED <<img, signal, arg, ramp>>

\* Image::get_unsafe(size_t offset) on a valid offset
GetUnsafe(h, offset) ==
    /\ Running
    /\ Usable(h)
    /\ offset \in 0..(size(img[h]) - 1)
    /\ last' = [last EXCEPT !.op = "get_unsafe", !.h = h, !.rx = offset, !.ry = 0,
                            !.ret = get_unsafe(PixelsOf(h), img[h].m_format, offset)]
    /\ UNCHANGED <<heap, img, signal, arg, writes, ramp>>

\* Image::get(int x, int y)
ImageGet(hp, im, x, y) ==
    IF InRange(im, x, y)
    THEN get_unsafe(hp[im.m_pixels].mem, im.m_format, y * im.m_w + x)
    ELSE ColorDefault

\* Image::set(int x, int y, Color color): the memory afterwards
ImageSet(hp, im, x, y, color) ==
    IF InRange(im, x, y)
    THEN [hp EXCEPT ![im.m_pixels].mem = set_unsafe(@, im.m_format, y * im.m_w + x, color)]
    ELSE hp

Get(h, x, y) ==
    /\ Running
    /\ Usable(h)
    /\ last' = [last EXCEPT !.op = "get", !.h = h, !.rx = x, !.ry = y,
                            !.ret = ImageGet(heap, img[h], x, y)]
    /\ UNCHANGED <<heap, img, signal, arg, writes, ramp>>

Set(h, x, y, color) ==
    /\ Running
    /\ Usable(h)
    /\ heap' = ImageSet(heap, img[h], x, y, color)
    /\ last' = [NoOp EXCEPT !.op = "set", !.h = h, !.x = x, !.y = y, !.color = color]
    /\ writes' = writes + 1
    /\ UNCHANGED <<img, signal, arg, ramp>>

----------------------------------------------------------------------------
(* blend (src/include/BPX/algorithm.hpp) and point (src/src/algorithm.cpp). *)

BlendMode == {"REPLACE", "ALPHA", "ADD", "SUB", "MUL", "SCREEN", "DARKEN", "LIGHTEN",
              "DIFFERENCE", "EXCLUSION", "DODGE", "BURN"}

Min(a, b) == IF a < b THEN a ELSE b
Max(a, b) == IF a > b THEN a ELSE b
Abs(a)    == IF a < 0 THEN -a ELSE a

\* The conversion to uint8_t without the clamp.
clamp_ubyteWrapping(value) == U8(value)
\* static_cast<uint8_t>(std::max(0, std::min(255, value)))
clamp_ubyte(value) == U8(Max(0, Min(255, value)))

\* The three floats of the ALPHA case.
src_alpha(src) == FDiv(IntToFloat(src.a), IntToFloat(255))
\* dst_alpha without the weight (1.0f - src_alpha).
dst_alphaWhole(dst, src) == FDiv(IntToFloat(dst.a), IntToFloat(255))
dst_alpha(dst, src) ==
    FMul(FDiv(IntToFloat(dst.a), IntToFloat(255)), FSub(IntToFloat(1), src_alpha(src)))
out_alpha(dst, src) == FAdd(src_alpha(src), dst_alpha(dst, src))

\* clamp_ubyte(static_cast<int>((s * src_alpha + d * dst_alpha) / out_alpha)),
\* for out_alpha # 0
AlphaChannel(d, s, dst, src) ==
    clamp_ubyte(FTrunc(FDiv(FAdd(FMul(IntToFloat(s), src_alpha(src)),
                                 FMul(IntToFloat(d), dst_alpha(dst, src))),
                            out_alpha(dst, src))))

\* With out_alpha = 0 the quotient is 0/0, a NaN, and its conversion to int is
\* undefined: any int may come out, which clamp_ubyte then brings into 0..255.
NaNChannels == {0, 255}

\* Every mode but ALPHA, per color channel.
BlendChannel(d, s, mode) ==
    CASE mode = "ADD"        -> clamp_ubyte(d + s)
      [] mode = "SUB"        -> clamp_ubyte(d - s)
      [] mode = "MUL"        -> clamp_ubyte((d * s) \div 255)
      [] mode = "SCREEN"     -> clamp_ubyte(255 - (((255 - d) * (255 - s)) \div 255))
      [] mode = "DARKEN"     -> Min(d, s)
      [] mode = "LIGHTEN"    -> Max(d, s)
      [] mode = "DIFFERENCE" -> clamp_ubyte(Abs(d - s))
      [] mode = "EXCLUSION"  -> clamp_ubyte(d + s - ((2 * d * s) \div 255))
      [] mode = "DODGE"      -> clamp_ubyte(IF s = 255 THEN 255
                                            ELSE Min(255, (d * 255) \div (255 - s)))
      [] mode = "BURN"       -> clamp_ubyte(IF s = 0 THEN 0
                                            ELSE Max(0, 255 - (((255 - d) * 255) \div s)))

\* The ALPHA case divides by out_alpha without a test of it.
DividesByZero(dst, src, mode) == mode = "ALPHA" /\ out_alpha(dst, src).m = 0

\* The colors blend(dst, src, mode) can return: one, except where the ALPHA
\* case divides by a zero out_alpha.
blend(dst, src, mode) ==
    CASE mode = "REPLACE" -> {src}
      [] mode = "ALPHA" ->
           IF DividesByZero(dst, src, mode)
           THEN {Color(r, g, b, clamp_ubyte(FTrunc(FMul(out_alpha(dst, src), IntToFloat(255))))) :
                     r \in NaNChannels, g \in NaNChannels, b \in NaNChannels}
           ELSE {Color(AlphaChannel(dst.r, src.r, dst, src),
                       AlphaChannel(dst.g, src.g, dst, src),
                       AlphaChannel(dst.b, src.b, dst, src),
                       clamp_ubyte(FTrunc(FMul(out_alpha(dst, src), IntToFloat(255)))))}
      [] OTHER ->
           {Color(BlendChannel(dst.r, src.r, mode), BlendChannel(dst.g, src.g, mode),
                  BlendChannel(dst.b, src.b, mode), dst.a)}

\* point without the blend: image.set(x, y, color)
PointUnblended(h, x, y, color, mode) ==
    /\ Running
    /\ Usable(h)
    /\ \E c \in {color} :
          heap' = ImageSet(heap, img[h], x, y, c)
    /\ last' = [NoOp EXCEPT !.op = "point", !.h = h, !.x = x, !.y = y, !.color = color,
                            !.mode = mode]
    /\ writes' = writes + 1
    /\ UNCHANGED <<img, signal, arg, ramp>>

\* point: image.set(x, y, blend(image.get(x, y), color, mode))
Point(h, x, y, color, mode) ==
    /\ Running
    /\ Usable(h)
    /\ \E c \in blend(ImageGet(heap, img[h], x, y), color, mode) :
          heap' = ImageSet(heap, img[h], x, y, c)
    /\ last' = [NoOp EXCEPT !.op = "point", !.h = h, !.x = x, !.y = y, !.color = color,
                            !.mode = mode]
    /\ writes' = writes + 1
    /\ UNCHANGED <<img, signal, arg, ramp>>

----------------------------------------------------------------------------
(* The ownership specification: the program allocates memory, constructs,   *)
(* copies, moves, writes and destroys images in any order.                  *)

Init ==
    /\ heap = [b \in BufIds |-> NoBuf]
    /\ img = [h \in Handles |-> NoImage]
    /\ signal = "none"
    /\ last = NoOp
    /\ arg = BLANK
    /\ writes = 0
    /\ ramp = NoRamp

Next ==
    \/ \E h \in Handles, c \in LifeColors, f \in LifeFormats, ok \in BOOLEAN,
          junk \in JunkBytes : NewSolid(h, c, f, ok, junk)
    \/ \E h \in Handles, b \in BufIds, f \in LifeFormats, ok \in BOOLEAN,
          junk \in JunkBytes : NewCopy(h, b, f, ok, junk)
    \/ \E h \in Handles, from \in Handles, ok \in BOOLEAN, junk \in JunkBytes :
          CopyImage(h, from, ok, junk)
    \/ \E h \in Handles, b \in BufIds, f \in LifeFormats, owned \in BOOLEAN :
          NewWrap(h, b, f, owned)
    \/ \E h \in Handles : Destroy(h)
    \/ \E h \in Handles, other \in Handles : MoveConstruct(h, other)
    \/ \E h \in Handles, other \in Handles : MoveAssign(h, other)
    \/ \E f \in LifeFormats, fill \in LifeFill :
          ExternAlloc(ImgW * ImgH * pixel_size(f), fill)

Spec == Init /\ [][Next]_vars

----------------------------------------------------------------------------
(* The copy specification: the program builds an image, copies it or copies *)
(* memory of its own into a second image, and then writes to either side.   *)

\* Sizes of the blocks the caller passes for an image of a format: the bytes
\* pixel_size announces, or the bytes the pixels take.
BlockSizes(format) ==
    {ImgW * ImgH * pixel_size(format), ImgW * ImgH * AccessStride(format)}

CopyNext ==
    \/ \E c \in LifeColors, f \in LifeFormats, junk \in JunkBytes :
          NewSolid(1, c, f, TRUE, junk)
    \/ \E f \in LifeFormats : \E n \in BlockSizes(f), fill \in LifeFill :
          ExternAlloc(n, fill)
    \/ \E b \in BufIds, f \in LifeFormats, junk \in JunkBytes : NewCopy(2, b, f, TRUE, junk)
    \/ \E junk \in JunkBytes : CopyImage(2, 1, TRUE, junk)
    \/ \E b \in BufIds, addr \in 0..MaxExternAddr, v \in ExternBytes :
          writes < MaxWrites /\ ExternWrite(b, addr, v)
    \/ \E h \in Handles, o \in 0..(ImgW * ImgH - 1), c \in CopyColors :
          writes < MaxWrites /\ SetUnsafe(h, o, c)

CopySpec == Init /\ [][CopyNext]_vars

----------------------------------------------------------------------------
(* The codec specification: one row of pixels of any format, as the         *)
(* solid-color constructor leaves it, and one color; the program writes the *)
(* color to pixels and reads pixels back.                                   *)

SolidImageState(format, w, h, color, junk) ==
    /\ heap = [b \in BufIds |->
                 IF b = 1
                 THEN LiveBuf(FillPixels(FillMem(w * h * pixel_size(format), junk),
                                         format, w * h, color), TRUE, FALSE)
                 ELSE NoBuf]
    /\ img = [i \in Handles |->
                 IF i = 1 THEN NewImage(1, format, w, h, TRUE, 0) ELSE NoImage]
    /\ signal = "none"
    /\ last = NoOp
    /\ writes = 0
    /\ ramp = NoRamp

CodecInit ==
    /\ \E format \in PixelFormat, junk \in JunkBytes : SolidImageState(format, ImgW, 1, BLANK, junk)
    /\ arg \in SampleColors

CodecNext ==
    \/ \E o \in 0..(ImgW - 1) : writes < MaxWrites /\ SetUnsafe(1, o, arg)
    \/ \E o \in 0..(ImgW - 1) : GetUnsafe(1, o)

CodecSpec == CodecInit /\ [][CodecNext]_vars

----------------------------------------------------------------------------
(* The accessor specification: one image, read and written through the      *)
(* checked accessors and point, at coordinates inside and outside it.       *)

\* Coordinates on both sides of every edge of the image.
Coords == {<<x, y>> : x \in {-1, 0, ImgW - 1, ImgW}, y \in {-1, 0, ImgH - 1, ImgH}}

AccessInit ==
    /\ \E format \in AccessFormats, junk \in JunkBytes : SolidImageState(format, ImgW, ImgH, BLANK, junk)
    /\ arg = BLANK

AccessNext ==
    \/ \E p \in Coords : Get(1, p[1], p[2])
    \/ \E p \in Coords, c \in AccessColors : writes < MaxWrites /\ Set(1, p[1], p[2], c)
    \/ \E p \in Coords, c \in AccessColors, mode \in AccessModes :
          writes < MaxWrites /\ Point(1, p[1], p[2], c, mode)

AccessSpec == AccessInit /\ [][AccessNext]_vars

----------------------------------------------------------------------------
(* Properties of the pixel codec, checked under CodecSpec.                  *)

TheImage  == img[1]
TheFormat == img[1].m_format

\* get_unsafe has just read the pixel that the latest set_unsafe wrote.
ReadBack == last.op = "get_unsafe" /\ writes > 0 /\ last.rx = last.x

U8Formats      == {"L_U8", "LA_U8", "RGB_U8", "BGR_U8", "RGBA_U8", "BGRA_U8"}
U8AlphaFormats == {"LA_U8", "RGBA_U8", "BGRA_U8"}

\* C1 as the claim states it: in each of the six 8-bit formats a color
\* written with set_unsafe is read back unchanged by get_unsafe at the same
\* offset (every color where the format stores alpha, colors with a = 255
\* where it does not).
C1_U8RoundTripAllFormats ==
    (/\ ReadBack
     /\ TheFormat \in U8Formats
     /\ (TheFormat \in U8AlphaFormats \/ last.color.a = 255))
    => last.ret = last.color

\* C1, amended: the round trip returns the color written in RGB_U8 and BGR_U8
\* (colors with a = 255) and in RGBA_U8 and BGRA_U8 (every color); in L_U8 and
\* LA_U8 it returns the gray (l, l, l) of the luminance l of the color written,
\* with alpha 255 in L_U8 and the alpha written in LA_U8.
C1_U8RoundTrip ==
    (ReadBack /\ TheFormat \in U8Formats) =>
        LET c == last.color
            l == luminance_value(c)
        IN CASE TheFormat \in {"RGBA_U8", "BGRA_U8"} -> last.ret = c
             [] TheFormat \in {"RGB_U8", "BGR_U8"}   -> c.a = 255 => last.ret = c
             [] TheFormat = "LA_U8"                  -> last.ret = Color(l, l, l, c.a)
             [] TheFormat = "L_U8"                   -> last.ret = Color(l, l, l, 255)

\* A color with four different channels came back from a BGRA_U8 pixel.
C1_Witness ==
    /\ ReadBack
    /\ TheFormat = "BGRA_U8"
    /\ last.color = Color(10, 20, 30, 51)
    /\ last.ret = Color(10, 20, 30, 51)

\* C2: pixel_size(format) is the number of bytes between the pixels at
\* consecutive offsets as get_unsafe and set_unsafe address them, so that
\* pitch() is W times and data_size() W*H times that number.
C2_PixelSizeIsStride ==
    /\ pixel_size(TheFormat) = AccessStride(TheFormat)
    /\ pitch(TheImage) = TheImage.m_w * AccessStride(TheFormat)
    /\ data_size(TheImage) = TheImage.m_w * TheImage.m_h * AccessStride(TheFormat)

\* round(ch * max / 255) and round(q * 255 / max) in integers (no ties occur).
NearestField(ch, max)   == (2 * ch * max + 255) \div 510
NearestChannel(q, max)  == (2 * q * 255 + max) \div (2 * max)

\* C8: in RGBA_4444 and BGRA_4444 every channel written is read back as
\* 17 * round(ch * 15 / 255), in either channel order.
C8_RoundTrip4444 ==
    (ReadBack /\ TheFormat \in {"RGBA_4444", "BGRA_4444"}) =>
        last.ret = Color(17 * NearestField(last.color.r, 15),
                         17 * NearestField(last.color.g, 15),
                         17 * NearestField(last.color.b, 15),
                         17 * NearestField(last.color.a, 15))

\* (255, 128, 0, 255) came back from an RGBA_4444 pixel as (255, 136, 0, 255).
C8_Witness ==
    /\ ReadBack
    /\ TheFormat = "RGBA_4444"
    /\ last.color = Color(255, 128, 0, 255)
    /\ last.ret = Color(255, 136, 0, 255)

\* C9: in RGB_565 and BGR_565 every channel written is read back as its field
\* round(ch * max / 255) scaled up by 255 / max (max 31 for red and blue, 63
\* for green), so that 0 reads back 0 and 255 reads back 255; alpha reads 255.
C9_RoundTrip565 ==
    (ReadBack /\ TheFormat \in {"RGB_565", "BGR_565"}) =>
        last.ret = Color(NearestChannel(NearestField(last.color.r, 31), 31),
                         NearestChannel(NearestField(last.color.g, 63), 63),
                         NearestChannel(NearestField(last.color.b, 31), 31),
                         255)

\* C10: in RGBA_5551 and BGRA_5551 the alpha read back is 255 when the alpha
\* written is above 50 and 0 when it is 50 or below.
C10_Alpha5551Threshold ==
    (ReadBack /\ TheFormat \in {"RGBA_5551", "BGRA_5551"}) =>
        last.ret.a = (IF last.color.a > 50 THEN 255 ELSE 0)

\* Alpha 50 written to a BGRA_5551 pixel came back as 0.
C10_Witness ==
    /\ ReadBack
    /\ TheFormat = "BGRA_5551"
    /\ last.color.a = 50
    /\ last.ret.a = 0

----------------------------------------------------------------------------
(* Properties of ownership, checked under Spec.                             *)

MoveOps == {"MoveConstruct", "MoveAssign"}

NoDoubleFree    == \A b \in BufIds : heap[b].frees <= 1
LentNeverFreed  == \A b \in BufIds : heap[b].lent => heap[b].frees = 0
SourceNulled(h) == img[h].m_pixels = nullptr /\ ~img[h].m_owned

\* C3 as the claim states it: after every move construction and every move
\* assignment the source has a null data pointer and owned = false; no block
\* is freed twice and a block passed with owned = false is never freed.
C3_EveryMoveNullsSource ==
    /\ last.op \in MoveOps => SourceNulled(last.src)
    /\ NoDoubleFree
    /\ LentNeverFreed

\* C3, amended: after a move construction, and after a move assignment from
\* another object, the source has a null data pointer and owned = false (an
\* object move-assigned to itself is left as it was); no block is freed twice
\* and a block passed with owned = false is never freed.
C3_MoveNullsSource ==
    /\ (last.op \in MoveOps /\ last.h # last.src) => SourceNulled(last.src)
    /\ NoDoubleFree
    /\ LentNeverFreed

\* An object was move-assigned from another one: the source is left null and
\* unowned, and the target owns the block, which is still allocated.
C3_Witness ==
    /\ last.op = "MoveAssign"
    /\ last.h # last.src
    /\ SourceNulled(last.src)
    /\ img[last.h].m_owned
    /\ img[last.h].m_pixels # nullptr
    /\ heap[img[last.h].m_pixels].st = "live"

\* C4: once every Image has been destroyed, no block that an Image owned is
\* still allocated.
C4_OwnedBlocksReleased ==
    (\A h \in Handles : img[h].st = "none") =>
        \A b \in BufIds : heap[b].owned => heap[b].st = "freed"

\* C7: a constructor whose std::malloc fails raises the out-of-memory
\* condition and constructs no Image.
C7_FailedMallocRaises ==
    (last.op \in {"NewSolid", "NewCopy", "CopyImage"} /\ ~last.ok) =>
        (signal = "bad_alloc" /\ img[last.h].st = "none")

----------------------------------------------------------------------------
(* Independence of copies, checked under CopySpec.                          *)

\* C5: a write to the memory an image was copied from leaves every pixel of
\* the copy unchanged, and a write to the copy leaves the memory it was
\* copied from unchanged.
C5_CopyIndependent ==
    [][\A h \in Handles :
          (Usable(h) /\ img[h].copied_from # 0 /\ img' = img /\ writes' # writes) =>
              LET src == img[h].copied_from
                  own == img[h].m_pixels
              IN /\ heap'[src] # heap[src] => Pixels(heap', img[h]) = Pixels(heap, img[h])
                 /\ heap'[own] # heap[own] => heap'[src] = heap[src]]_vars

\* The caller overwrote a byte of the block an image was copied from, and
\* every pixel of the copy still reads as the block was filled when copied.
C5_Witness ==
    /\ last.op = "ExternWrite"
    /\ Usable(2)
    /\ img[2].copied_from = last.src
    /\ \E i \in DOMAIN heap[last.src].mem : heap[last.src].mem[i] \notin LifeFill
    /\ \A o \in 0..(size(img[2]) - 1) :
          get_unsafe(PixelsOf(2), img[2].m_format, o) = Color(60, 60, 60, 60)

----------------------------------------------------------------------------
(* Properties of the checked accessors, checked under AccessSpec.           *)

\* 0 <= x < W and 0 <= y < H
InImage(x, y) == x \in 0..(ImgW - 1) /\ y \in 0..(ImgH - 1)

\* C6: get outside the image returns Color(0,0,0,0), set and point outside
\* the image leave the memory unchanged, and inside the image get, set and
\* point act as get_unsafe and set_unsafe at offset y * W + x.
C6_CheckedAccessClips ==
    [][LET mem == heap[1].mem
           f   == img[1].m_format
       IN /\ last'.op = "get" =>
                last'.ret = IF InImage(last'.rx, last'.ry)
                            THEN get_unsafe(mem, f, last'.ry * ImgW + last'.rx)
                            ELSE Color(0, 0, 0, 0)
          /\ last'.op = "set" =>
                heap'[1].mem = IF InImage(last'.x, last'.y)
                               THEN set_unsafe(mem, f, last'.y * ImgW + last'.x, last'.color)
                               ELSE mem
          /\ last'.op = "point" =>
                IF InImage(last'.x, last'.y)
                THEN \E c \in blend(get_unsafe(mem, f, last'.y * ImgW + last'.x),
                                    last'.color, last'.mode) :
                        heap'[1].mem = set_unsafe(mem, f, last'.y * ImgW + last'.x, c)
                ELSE heap'[1].mem = mem]_vars

\* set was called one column right of the last column of the first row, and
\* every pixel still reads as the constructor left it.
C6_Witness ==
    /\ last.op = "set"
    /\ last.x = ImgW
    /\ last.y = 0
    /\ last.color = RED
    /\ \A o \in 0..(size(img[1]) - 1) : get_unsafe(heap[1].mem, img[1].m_format, o) = BLANK

----------------------------------------------------------------------------
(* Color arithmetic (src/include/BPX/color.hpp).                            *)

\* Color::operator+(const Color&)
ColorPlus(a, b) ==
    Color(U8(Min(a.r + b.r, 255)), U8(Min(a.g + b.g, 255)),
          U8(Min(a.b + b.b, 255)), U8(Min(a.a + b.a, 255)))

\* Color::operator-(const Color&)
ColorMinus(a, b) ==
    Color(U8(Max(a.r - b.r, 0)), U8(Max(a.g - b.g, 0)),
          U8(Max(a.b - b.b, 0)), U8(Max(a.a - b.a, 0)))

\* The 16-bit halves of an int as a 32-bit two's complement word.
IntHi(k) == IF k >= 0 THEN k \div 65536 ELSE 32768 + ((k + 1073741824 + 1073741824) \div 65536)
IntLo(k) == IF k >= 0 THEN k % 65536 ELSE (k + 1073741824 + 1073741824) % 65536

\* ch * k does not fit an int.
MulOverflows(ch, k) == ch # 0 /\ Abs(k) > 2147483647 \div ch

\* ch * k as a build that wraps signed overflow computes it.
WrapMul(ch, k) ==
    LET lo  == ch * IntLo(k)
        hi  == ((ch * IntHi(k)) + (lo \div 65536)) % 65536
    IN IF hi >= 32768 THEN ((hi - 65536) * 65536) + (lo % 65536)
                      ELSE (hi * 65536) + (lo % 65536)

\* std::clamp(v, 0, 255)
Clamp255(v) == Max(0, Min(v, 255))

\* static_cast<uint8_t>(std::clamp(ch * value, T(0), T(255))) with T = int.  Where
\* the product overflows, the behaviour is undefined: any int may come out
\* of it, which std::clamp then brings into 0..255.
ScaleChannel(ch, k) ==
    IF MulOverflows(ch, k)
    THEN {Clamp255(WrapMul(ch, k)), 0, 255}
    ELSE {Clamp255(ch * k)}

\* The colors Color::operator*(T value) can return for an int value.
ColorTimes(a, k) ==
    {Color(r, g, b, al) : r \in ScaleChannel(a.r, k), g \in ScaleChannel(a.g, k),
                          b \in ScaleChannel(a.b, k), al \in ScaleChannel(a.a, k)}

\* The int scalars the color specification multiplies by.
ScalarSamples ==
    {-2147483647, -8421505, -2, -1, 0, 1, 2, 3, 255, 256, 8421504, 8421505,
     1073741824, 2147483647}

\* a + b, a - b, a * k
Plus(b) ==
    /\ last' = [NoOp EXCEPT !.op = "operator+", !.color = b, !.ret = ColorPlus(arg, b)]
    /\ UNCHANGED <<heap, img, signal, arg, writes, ramp>>

Minus(b) ==
    /\ last' = [NoOp EXCEPT !.op = "operator-", !.color = b, !.ret = ColorMinus(arg, b)]
    /\ UNCHANGED <<heap, img, signal, arg, writes, ramp>>

Times(k) ==
    /\ \E c \in ColorTimes(arg, k) :
          last' = [NoOp EXCEPT !.op = "operator*", !.x = k, !.ret = c]
    /\ UNCHANGED <<heap, img, signal, arg, writes, ramp>>

----------------------------------------------------------------------------
(* The color specification: one color, combined with every other color and *)
(* with int scalars.                                                        *)

ColorInit ==
    /\ heap = [b \in BufIds |-> NoBuf]
    /\ img = [h \in Handles |-> NoImage]
    /\ signal = "none"
    /\ last = NoOp
    /\ arg \in SampleColors
    /\ writes = 0
    /\ ramp = NoRamp

\* Nothing has been evaluated in this run yet: each run of the specifications
\* of pure functions evaluates one expression.
Fresh == last.op = "none"

ColorNext ==
    \/ \E b \in SampleColors : Fresh /\ Plus(b)
    \/ \E b \in SampleColors : Fresh /\ Minus(b)
    \/ \E k \in ScalarSamples : Fresh /\ Times(k)

ColorSpec == ColorInit /\ [][ColorNext]_vars

\* min(max(ch * k, 0), 255) over the integers
SaturatedProduct(ch, k) ==
    IF k <= 0 \/ ch = 0 THEN 0 ELSE IF k >= 255 THEN 255 ELSE Min(ch * k, 255)

\* C11: every channel of a + b is min(a.ch + b.ch, 255), of a - b is
\* max(a.ch - b.ch, 0), and of a * k, for an int k, min(max(a.ch * k, 0), 255).
C11_ArithmeticSaturates ==
    /\ last.op = "operator+" =>
          last.ret = Color(Min(arg.r + last.color.r, 255), Min(arg.g + last.color.g, 255),
                           Min(arg.b + last.color.b, 255), Min(arg.a + last.color.a, 255))
    /\ last.op = "operator-" =>
          last.ret = Color(Max(arg.r - last.color.r, 0), Max(arg.g - last.color.g, 0),
                           Max(arg.b - last.color.b, 0), Max(arg.a - last.color.a, 0))
    /\ last.op = "operator*" =>
          last.ret = Color(SaturatedProduct(arg.r, last.x), SaturatedProduct(arg.g, last.x),
                           SaturatedProduct(arg.b, last.x), SaturatedProduct(arg.a, last.x))

----------------------------------------------------------------------------
(* The blend specification: blend(dst, src, mode) for one destination, every *)
(* source and every mode.                                                   *)

WithAlpha(c, a) == [c EXCEPT !.a = a]

\* Destinations without opacity, besides those of SampleColors.
TransparentColors == {WithAlpha(SampleColor(v), 0) : v \in {0, 1, 100, 254, 255}}

\* Sources of every mode but ALPHA: the ends of the channel's range and every
\* ninth value between them.
BlendSources ==
    {SampleColor(v) : v \in {w \in Channel : w % 9 = 0 \/ w < 3 \/ w > 252}}
    \cup {BLANK, RED, Color(255, 255, 255, 255), Color(0, 0, 0, 255)}

\* Sources of the ALPHA mode.
AlphaSources ==
    {SampleColor(v) : v \in {0, 1, 100, 127, 128, 165, 200, 255}} \cup {BLANK, RED}

Blend(src, mode) ==
    /\ \E c \in blend(arg, src, mode) :
          last' = [NoOp EXCEPT !.op = "blend", !.color = src, !.mode = mode, !.ret = c]
    /\ UNCHANGED <<heap, img, signal, arg, writes, ramp>>

BlendInit ==
    /\ heap = [b \in BufIds |-> NoBuf]
    /\ img = [h \in Handles |-> NoImage]
    /\ signal = "none"
    /\ last = NoOp
    /\ arg \in SampleColors \cup TransparentColors
    /\ writes = 0
    /\ ramp = NoRamp

BlendNext ==
    \/ \E src \in BlendSources, mode \in BlendMode \ {"ALPHA"} : Fresh /\ Blend(src, mode)
    \/ \E src \in AlphaSources : Fresh /\ Blend(src, "ALPHA")
    \/ \E src \in AlphaSources : Fresh /\ Blend(WithAlpha(src, 255), "ALPHA")
    \/ \E src \in AlphaSources : Fresh /\ Blend(WithAlpha(src, 0), "ALPHA")

BlendSpec == BlendInit /\ [][BlendNext]_vars

\* C12: blend(dst, src, ALPHA) of two colors without opacity divides by no
\* zero and returns the color with every channel zero.
C12_ZeroAlphaIsBlank ==
    (last.op = "blend" /\ last.mode = "ALPHA" /\ arg.a = 0 /\ last.color.a = 0) =>
        /\ ~DividesByZero(arg, last.color, last.mode)
        /\ last.ret = Color(0, 0, 0, 0)

\* C13: blend(dst, src, ALPHA) with a fully opaque src returns src, whatever
\* dst is.
C13_OpaqueSourceReplaces ==
    (last.op = "blend" /\ last.mode = "ALPHA" /\ last.color.a = 255) =>
        last.ret = last.color

\* A half-transparent gray was covered by an opaque color in the ALPHA mode.
C13_Witness ==
    /\ last.op = "blend"
    /\ last.mode = "ALPHA"
    /\ arg = Color(200, 200, 200, 50)
    /\ last.color = Color(1, 20, 254, 255)
    /\ last.ret = Color(1, 20, 254, 255)

\* The reference operator of each mode on one channel, over the integers with
\* truncating division.
ReferenceChannel(d, s, mode) ==
    CASE mode = "ADD"        -> IF d + s > 255 THEN 255 ELSE d + s
      [] mode = "SUB"        -> IF d < s THEN 0 ELSE d - s
      [] mode = "MUL"        -> (d * s) \div 255
      [] mode = "SCREEN"     -> 255 - (((255 - d) * (255 - s)) \div 255)
      [] mode = "DARKEN"     -> IF d <= s THEN d ELSE s
      [] mode = "LIGHTEN"    -> IF d >= s THEN d ELSE s
      [] mode = "DIFFERENCE" -> IF d >= s THEN d - s ELSE s - d
      [] mode = "EXCLUSION"  -> (d + s) - ((2 * d * s) \div 255)
      [] mode = "DODGE"      -> IF s = 255 THEN 255
                                ELSE IF (d * 255) \div (255 - s) > 255 THEN 255
                                ELSE (d * 255) \div (255 - s)
      [] mode = "BURN"       -> IF s = 0 THEN 0
                                ELSE IF ((255 - d) * 255) \div s > 255 THEN 0
                                ELSE 255 - (((255 - d) * 255) \div s)

\* C14: REPLACE returns src; every other mode but ALPHA returns, in each of
\* R, G and B, its reference operator of the two channels, a value of 0..255,
\* and the alpha of dst.
C14_ModesMatchReference ==
    (last.op = "blend" /\ last.mode # "ALPHA") =>
        IF last.mode = "REPLACE"
        THEN last.ret = last.color
        ELSE /\ last.ret.r = ReferenceChannel(arg.r, last.color.r, last.mode)
             /\ last.ret.g = ReferenceChannel(arg.g, last.color.g, last.mode)
             /\ last.ret.b = ReferenceChannel(arg.b, last.color.b, last.mode)
             /\ last.ret.a = arg.a
             /\ {last.ret.r, last.ret.g, last.ret.b} \subseteq 0..255

\* White was added to a half-transparent gray: the channels saturate and the
\* alpha is that of the gray.
C14_Witness ==
    /\ last.op = "blend"
    /\ last.mode = "ADD"
    /\ arg = Color(200, 200, 200, 50)
    /\ last.color = Color(255, 255, 255, 255)
    /\ last.ret = Color(255, 255, 255, 50)

----------------------------------------------------------------------------
(* ColorRamp (src/include/BPX/ramp.hpp) and lerp                            *)
(* (src/include/BPX/algorithm.hpp).  Positions and the t of get are counted *)
(* in eighths, which are floats without rounding.                           *)

WHITE == Color(255, 255, 255, 255)
BLACK == Color(0, 0, 0, 255)

\* ColorRamp::Point
RampPoint(color, position) == [color |-> color, position |-> position]

\* n eighths as a float
PosToFloat(n) == FDiv(IntToFloat(n), IntToFloat(8))

\* The position as passed, unclamped.
ClampPosIdentity(position) == position

\* std::clamp(position, 0.0f, 1.0f)
ClampPos(position) == Max(0, Min(position, 8))

\* static_cast<uint8_t>(a.ch + t * (b.ch - a.ch)) for a float t of 0..1: the
\* difference is an int, the product and the sum are floats.
LerpChannel(x, y, t) ==
    U8(FTrunc(IF y >= x
              THEN FAdd(IntToFloat(x), FMul(t, IntToFloat(y - x)))
              ELSE FSub(IntToFloat(x), FMul(t, IntToFloat(x - y)))))

lerp(a, b, t) ==
    Color(LerpChannel(a.r, b.r, t), LerpChannel(a.g, b.g, t),
          LerpChannel(a.b, b.b, t), LerpChannel(a.a, b.a, t))

IsSortedByPosition(points) ==
    \A i \in 1..(Len(points) - 1) : points[i].position <= points[i + 1].position

\* std::sort by position: the order of points of equal position is not
\* specified, so every ascending order of the points is a possible outcome.
std_sort(points) ==
    {q \in {[i \in 1..Len(points) |-> points[f[i]]] : f \in Permutations(1..Len(points))} :
        IsSortedByPosition(q)}

\* The size test with 3 for 2.
TooFewPointsThree(n) == n < 3

\* points.size() < 2
TooFewPoints(n) == n < 2

\* ColorRamp(Color color0, Color color1)
NewRamp2(color0, color1) ==
    /\ Running
    /\ ramp.st = "none"
    /\ ramp' = [st |-> "live", m_use_dynamic |-> FALSE,
                points |-> <<RampPoint(color0, 0), RampPoint(color1, 8)>>]
    /\ last' = [NoOp EXCEPT !.op = "ColorRamp(Color, Color)"]
    /\ UNCHANGED <<heap, img, signal, arg, writes>>

\* ColorRamp(std::initializer_list<Point> points)
NewRampList(points) ==
    /\ Running
    /\ ramp.st = "none"
    /\ IF TooFewPoints(Len(points))
       THEN /\ signal' = "invalid_argument"
            /\ ramp' = ramp
       ELSE /\ signal' = signal
            /\ IF Len(points) > 2
               THEN \E q \in std_sort(points) :
                       ramp' = [st |-> "live", m_use_dynamic |-> TRUE, points |-> q]
               ELSE ramp' = [st |-> "live", m_use_dynamic |-> FALSE,
                             points |-> <<points[1], points[2]>>]
    /\ last' = [NoOp EXCEPT !.op = "ColorRamp(initializer_list)", !.x = Len(points)]
    /\ UNCHANGED <<heap, img, arg, writes>>

\* The ramps ColorRamp::add(color, position) can leave.
ColorRamp_add(rp, color, position0) ==
    LET position == ClampPos(position0)
        hit      == {i \in 1..Len(rp.points) : rp.points[i].position = position}
        first    == CHOOSE i \in hit : \A j \in hit : i <= j
        appended == Append(rp.points, RampPoint(color, position))
    IN IF ~rp.m_use_dynamic
       THEN IF hit # {}
            THEN {[rp EXCEPT !.points[first].color = color]}
            ELSE {[rp EXCEPT !.m_use_dynamic = TRUE, !.points = q] : q \in std_sort(appended)}
       ELSE IF hit # {}
            THEN {[rp EXCEPT !.points[first].color = color]}
            ELSE {[rp EXCEPT !.points = q] : q \in std_sort(appended)}

RampAdd(color, position) ==
    /\ Running
    /\ ramp.st = "live"
    /\ \E r \in ColorRamp_add(ramp, color, position) :
          /\ Len(r.points) <= MaxRampPoints
          /\ ramp' = r
    /\ last' = [NoOp EXCEPT !.op = "ColorRamp::add", !.color = color, !.x = position]
    /\ UNCHANGED <<heap, img, signal, arg, writes>>

\* get with < and > in its tests of the first and the last position.
ColorRamp_getOpen(rp, t0) ==
    LET t        == ClampPos(t0)
        m_static == rp.points
        m_dynamic == rp.points
        n        == Len(rp.points)
    IN IF ~rp.m_use_dynamic
       THEN IF t < m_static[1].position THEN m_static[1].color
            ELSE IF t > m_static[2].position THEN m_static[2].color
            ELSE lerp(m_static[1].color, m_static[2].color, PosToFloat(t))
       ELSE IF t < m_dynamic[1].position THEN m_dynamic[1].color
            ELSE IF t > m_dynamic[n].position THEN m_dynamic[n].color
            ELSE LET i   == CHOOSE k \in 2..n :
                               /\ t <= m_dynamic[k].position
                               /\ \A j \in 2..(k - 1) : ~(t <= m_dynamic[j].position)
                     cp1 == m_dynamic[i - 1]
                     cp2 == m_dynamic[i]
                     blend_t == FDiv(IntToFloat(t - cp1.position),
                                     IntToFloat(cp2.position - cp1.position))
                 IN lerp(cp1.color, cp2.color, blend_t)

\* ColorRamp::get(t)
ColorRamp_get(rp, t0) ==
    LET t        == ClampPos(t0)
        m_static == rp.points
        m_dynamic == rp.points
        n        == Len(rp.points)
    IN IF ~rp.m_use_dynamic
       THEN IF t <= m_static[1].position THEN m_static[1].color
            ELSE IF t >= m_static[2].position THEN m_static[2].color
            ELSE lerp(m_static[1].color, m_static[2].color, PosToFloat(t))
       ELSE IF t <= m_dynamic[1].position THEN m_dynamic[1].color
            ELSE IF t >= m_dynamic[n].position THEN m_dynamic[n].color
            ELSE LET i   == CHOOSE k \in 2..n :
                               /\ t <= m_dynamic[k].position
                               /\ \A j \in 2..(k - 1) : ~(t <= m_dynamic[j].position)
                     cp1 == m_dynamic[i - 1]
                     cp2 == m_dynamic[i]
                     blend_t == FDiv(IntToFloat(t - cp1.position),
                                     IntToFloat(cp2.position - cp1.position))
                 IN lerp(cp1.color, cp2.color, blend_t)

RampGet(t) ==
    /\ Running
    /\ ramp.st = "live"
    /\ last' = [NoOp EXCEPT !.op = "ColorRamp::get", !.x = t, !.ret = ColorRamp_get(ramp, t)]
    /\ UNCHANGED <<heap, img, signal, arg, writes, ramp>>

----------------------------------------------------------------------------
(* The ramp specification: one ColorRamp is constructed in any of the three *)
(* ways, points are added to it and colors are read from it.                *)

RampColors    == {BLACK, WHITE}
AddColors     == {WHITE, Color(200, 100, 0, 50)}
ListPositions == {0, 2, 4, 8}
AddPositions  == {-4, 2, 4, 6, 12}
RampTs        == {-4, 0, 1, 2, 4, 6, 8, 12}
ListPoints    == {RampPoint(c, p) : c \in RampColors, p \in ListPositions}

RampNext ==
    \/ \E color0 \in RampColors, color1 \in RampColors : NewRamp2(color0, color1)
    \/ \E n \in 0..MaxRampPoints : \E points \in [1..n -> ListPoints] : NewRampList(points)
    \/ \E color \in AddColors, position \in AddPositions : RampAdd(color, position)
    \/ \E t \in RampTs : RampGet(t)

RampSpec == Init /\ [][RampNext]_vars

\* C15: a constructed ramp holds at least two points, and they are in
\* ascending order of position, however it was constructed and whatever was
\* added to it.
C15_SortedAtLeastTwo ==
    ramp.st = "live" =>
        /\ Len(ramp.points) >= 2
        /\ IsSortedByPosition(ramp.points)

\* p eighths brought into 0.0 .. 1.0
ClampedToUnit(p) == IF p < 0 THEN 0 ELSE IF p > 8 THEN 8 ELSE p

\* (t - pos_prev) / (pos_next - pos_prev) as a float
NormalizedT(t, prev, next) ==
    FDiv(IntToFloat(t - prev.position), IntToFloat(next.position - prev.position))

\* C16: where the points of a ramp are in ascending order and t lies strictly
\* between two neighbours, get(t) is lerp of their colors at
\* (t - pos_prev) / (pos_next - pos_prev), in the fixed storage as in the
\* dynamic one.
C16_InteriorIsNormalizedLerp ==
    (ramp.st = "live" /\ last.op = "ColorRamp::get" /\ IsSortedByPosition(ramp.points)) =>
        \A i \in 2..Len(ramp.points) :
            LET prev == ramp.points[i - 1]
                next == ramp.points[i]
            IN (prev.position < last.x /\ last.x < next.position) =>
                   last.ret = lerp(prev.color, next.color, NormalizedT(last.x, prev, next))

\* a and b hold the same points, each as often.
SamePoints(a, b) ==
    /\ Len(a) = Len(b)
    /\ \E f \in Permutations(1..Len(a)) : \A i \in 1..Len(a) : a[i] = b[f[i]]

RemoveAt(points, k) == SubSeq(points, 1, k - 1) \o SubSeq(points, k + 1, Len(points))

\* C17: add(color, p) clamps p to 0..1; where a point has the clamped
\* position, only the color of one such point changes and the number of points
\* stays; otherwise one point of that color and position is new, and every
\* other point keeps its color and position.
C17_AddReplacesOrInserts ==
    [][last'.op = "ColorRamp::add" =>
          LET p   == ClampedToUnit(last'.x)
              old == ramp.points
              new == ramp'.points
              hit == {i \in 1..Len(old) : old[i].position = p}
          IN IF hit # {}
             THEN \E i \in hit : new = [old EXCEPT ![i].color = last'.color]
             ELSE /\ Len(new) = Len(old) + 1
                  /\ \E k \in 1..Len(new) :
                        /\ new[k] = RampPoint(last'.color, p)
                        /\ SamePoints(RemoveAt(new, k), old)]_vars

\* A color was added at -0.5 to a ramp without a point at 0.0: the ramp has
\* a new first point at 0.0, before the two it had.
C17_Witness ==
    /\ last.op = "ColorRamp::add"
    /\ last.x = -4
    /\ last.color = Color(200, 100, 0, 50)
    /\ ramp.m_use_dynamic
    /\ ramp.points = <<RampPoint(Color(200, 100, 0, 50), 0), RampPoint(BLACK, 2),
                       RampPoint(WHITE, 8)>>

\* What get(t) of the ramp black at 0.0, white at 1.0 returns at 0, 0.5 and 1.
BlackToWhiteExample ==
    ramp.points = <<RampPoint(BLACK, 0), RampPoint(WHITE, 8)>> =>
        /\ last.x = 0 => last.ret = BLACK
        /\ last.x = 8 => last.ret = WHITE
        /\ last.x = 4 => /\ {last.ret.r, last.ret.g, last.ret.b} \subseteq 127..129
                         /\ last.ret.a = 255

\* C18 as the claim states it, for ramps whose points are in ascending order:
\* get(t) returns the color of the first point whenever the clamped t is at or
\* below its position and the color of the last point whenever the clamped t
\* is at or above its position.
C18_BothBoundaryColors ==
    (ramp.st = "live" /\ last.op = "ColorRamp::get" /\ IsSortedByPosition(ramp.points)) =>
        LET t == ClampedToUnit(last.x)
            n == Len(ramp.points)
        IN /\ t <= ramp.points[1].position => last.ret = ramp.points[1].color
           /\ t >= ramp.points[n].position => last.ret = ramp.points[n].color
           /\ BlackToWhiteExample

\* C18: get(t) returns the color of the first point whenever the clamped t is
\* at or below its position, and otherwise the color of the last point
\* whenever the clamped t is at or above its position; the ramp black at 0.0,
\* white at 1.0 gives black at 0, white at 1 and a gray within 1 of 128 at 0.5.
C18_BoundaryColors ==
    (ramp.st = "live" /\ last.op = "ColorRamp::get") =>
        LET t == ClampedToUnit(last.x)
            n == Len(ramp.points)
        IN /\ t <= ramp.points[1].position => last.ret = ramp.points[1].color
           /\ (t > ramp.points[1].position /\ t >= ramp.points[n].position) =>
                  last.ret = ramp.points[n].color
           /\ BlackToWhiteExample

\* get(0.5) of the ramp black at 0.0, white at 1.0 returned the gray 127.
C18_Witness ==
    /\ last.op = "ColorRamp::get"
    /\ last.x = 4
    /\ ramp.points = <<RampPoint(BLACK, 0), RampPoint(WHITE, 8)>>
    /\ last.ret = Color(127, 127, 127, 255)

\* C19: the constructor from an initializer list of fewer than 2 points raises
\* invalid_argument and leaves no ramp; from 2 or more points it raises
\* nothing and leaves a ramp of as many points.
C19_ShortListRejected ==
    last.op = "ColorRamp(initializer_list)" =>
        IF last.x < 2
        THEN signal = "invalid_argument" /\ ramp.st = "none"
        ELSE signal = "none" /\ ramp.st = "live" /\ Len(ramp.points) = last.x

\* The constructor was given one point and raised invalid_argument.
C19_Witness ==
    /\ last.op = "ColorRamp(initializer_list)"
    /\ last.x = 1
    /\ signal = "invalid_argument"
    /\ ramp.st = "none"

----------------------------------------------------------------------------
(* convert (src/src/algorithm.cpp) and the scenario specification: an image *)
(* of RGBA_U8 filled with BLANK, two calls of point at one pixel as the     *)
(* script of the run says, and conversions of the image to other formats.   *)

\* for (size_t i = 0; i < size; i++) new_image.set_unsafe(i, image.get_unsafe(i));
\* dst is new_image before the pass of offset i, n is size; an image without
\* bytes has no pixel to write.
RECURSIVE ConvertPixels(_, _, _, _, _, _)
ConvertPixels(dst, new_format, src, format, i, n) ==
    IF i = n \/ MemSize(dst) = 0 THEN dst
    ELSE ConvertPixels(set_unsafe(dst, new_format, i, get_unsafe(src, format, i)),
                       new_format, src, format, i + 1, n)

\* convert(image, new_format): an image of the new format and of the size of
\* the source, filled with BLANK by its constructor, receives every pixel of the
\* source.  h is the image returned.
Convert(h, from, new_format, junk) ==
    /\ Running
    /\ Usable(from)
    /\ img[h].st = "none"
    /\ CanMalloc
    /\ LET b         == FreshBuf
           w         == img[from].m_w
           hh        == img[from].m_h
           new_image == FillPixels(FillMem(w * hh * pixel_size(new_format), junk),
                                   new_format, w * hh, BLANK)
       IN /\ heap' = [heap EXCEPT ![b] =
                        LiveBuf(ConvertPixels(new_image, new_format, PixelsOf(from),
                                              img[from].m_format, 0, w * hh), TRUE, FALSE)]
          /\ img' = [img EXCEPT ![h] = NewImage(b, new_format, w, hh, TRUE, 0)]
    /\ last' = [NoOp EXCEPT !.op = "convert", !.h = h, !.src = from]
    /\ UNCHANGED <<signal, arg, writes, ramp>>

\* The scripts of a run: the color and the mode of the first and of the second
\* call of point, and the pixel both are made at.
ScenarioColors == {RED, Color(10, 0, 0, 0)}
Scripts ==
    [c1 : ScenarioColors, m1 : AccessModes, c2 : ScenarioColors, m2 : AccessModes,
     at : {<<0, 0>>, <<ImgW - 1, ImgH - 1>>}]
ConvertFormats == {"BGRA_U8", "RGB_U8"}

ScenarioInit ==
    /\ \E junk \in JunkBytes : SolidImageState("RGBA_U8", ImgW, ImgH, BLANK, junk)
    /\ arg \in Scripts

ScenarioNext ==
    \/ writes = 0 /\ Point(1, arg.at[1], arg.at[2], arg.c1, arg.m1)
    \/ writes = 1 /\ Point(1, arg.at[1], arg.at[2], arg.c2, arg.m2)
    \/ \E new_format \in ConvertFormats, junk \in JunkBytes : Convert(2, 1, new_format, junk)

ScenarioSpec == ScenarioInit /\ [][ScenarioNext]_vars

\* RED with REPLACE, then Color(10,0,0,0) with ADD, both at pixel (0,0).
TheScenario ==
    [c1 |-> RED, m1 |-> "REPLACE", c2 |-> Color(10, 0, 0, 0), m2 |-> "ADD", at |-> <<0, 0>>]

\* Both calls of the scenario were made: pixel (0,0) of the image is c and every
\* other pixel is BLANK, and an image converted to BGRA_U8 after them reads c at
\* (0,0).
ScenarioLeaves(c) ==
    (arg = TheScenario /\ writes = 2) =>
        /\ Pixels(heap, img[1]) = [o \in 0..(size(img[1]) - 1) |-> IF o = 0 THEN c ELSE BLANK]
        /\ (last.op = "convert" /\ img[2].m_format = "BGRA_U8") =>
               ImageGet(heap, img[2], 0, 0) = c

----------------------------------------------------------------------------
(* The conversion specification: an image of an 8-bit format filled with    *)
(* one color is converted to the formats of the same channels.              *)

\* The formats of the channels of an 8-bit format: the 8-bit format with R and
\* B swapped, and the F16 and F32 formats.
RoundTripTargets(format) ==
    CASE format = "L_U8"    -> {"L_F16", "L_F32"}
      [] format = "LA_U8"   -> {"LA_F16", "LA_F32"}
      [] format = "RGB_U8"  -> {"BGR_U8", "RGB_F16", "RGB_F32"}
      [] format = "BGR_U8"  -> {"RGB_U8", "BGR_F16", "BGR_F32"}
      [] format = "RGBA_U8" -> {"BGRA_U8", "RGBA_F16", "RGBA_F32"}
      [] format = "BGRA_U8" -> {"RGBA_U8", "BGRA_F16", "BGRA_F32"}

ConvertInit ==
    /\ arg \in SampleColors
    /\ \E format \in U8Formats, junk \in JunkBytes :
          SolidImageState(format, ImgW, 1, arg, junk)

ConvertNext ==
    \/ \E junk \in JunkBytes : \E new_format \in RoundTripTargets(img[1].m_format) :
          Convert(2, 1, new_format, junk)
    \/ \E h \in Handles, o \in 0..(ImgW - 1) : GetUnsafe(h, o)

ConvertSpec == ConvertInit /\ [][ConvertNext]_vars

\* The pixels of convert(image h, new_format), read in the new format.
ConvertedBack(h, new_format) ==
    LET n == size(img[h])
        blank == FillMem(n * pixel_size(new_format), 0)
        mem == ConvertPixels(blank, new_format, PixelsOf(h), img[h].m_format, 0, n)
    IN [o \in 0..(n - 1) |-> get_unsafe(mem, new_format, o)]

\* C21: the image converted from an 8-bit format to a format of the same
\* channels has the width and the height of the source and reads the color of
\* the source at every pixel, and converted back it has the pixels of the
\* source.
C21_ConvertRoundTrips ==
    (last.op = "convert" /\ img[2].st = "live") =>
        /\ img[2].m_w = img[1].m_w
        /\ img[2].m_h = img[1].m_h
        /\ Pixels(heap, img[2]) = Pixels(heap, img[1])
        /\ ConvertedBack(2, img[1].m_format) = Pixels(heap, img[1])

----------------------------------------------------------------------------
(* The color fields of the 5551 formats.                                    *)

\* The 5-bit rounding of a channel, decoded back to 8 bits.
Decoded5(ch) == U8(Quantize(ch, 31) * (255 \div 31))

\* C22: in RGBA_5551 and BGRA_5551 the red, the green and the blue read back
\* after a write are the 5-bit roundings of the written channels decoded
\* back, whatever the written alpha is.
C22_AlphaBitLeavesColorFields ==
    (ReadBack /\ TheFormat \in {"RGBA_5551", "BGRA_5551"}) =>
        /\ last.ret.r = Decoded5(last.color.r)
        /\ last.ret.g = Decoded5(last.color.g)
        /\ last.ret.b = Decoded5(last.color.b)

----------------------------------------------------------------------------
(* Drawing and flipping (src/src/algorithm.cpp).                            *)

\* for (int x = 0; x < image.width(); x++) { ... } of flip_horizontal: the
\* source pixel is read from the image, not from row_buffer.
RECURSIVE FlipRow(_, _, _, _, _)
FlipRow(mem, format, w, y, x) ==
    IF x >= w \/ MemSize(mem) = 0 THEN mem
    ELSE LET src_offset == (y * w) + x
             dst_offset == (y * w) + (w - x - 1)
         IN FlipRow(IF src_offset # dst_offset
                    THEN set_unsafe(mem, format, dst_offset, get_unsafe(mem, format, src_offset))
                    ELSE mem,
                    format, w, y, x + 1)

\* for (int y = 0; y < image.height(); y++) { ... } of flip_horizontal
RECURSIVE FlipRows(_, _, _, _, _)
FlipRows(mem, format, w, h, y) ==
    IF y >= h \/ MemSize(mem) = 0 THEN mem
    ELSE FlipRows(FlipRow(mem, format, w, y, 0), format, w, h, y + 1)

\* flip_horizontal(Image& image)
FlipHorizontal(h) ==
    /\ Running
    /\ Usable(h)
    /\ heap' = [heap EXCEPT ![img[h].m_pixels].mem =
                  FlipRows(@, img[h].m_format, img[h].m_w, img[h].m_h, 0)]
    /\ last' = [NoOp EXCEPT !.op = "flip_horizontal", !.h = h]
    /\ writes' = writes + 1
    /\ UNCHANGED <<img, signal, arg, ramp>>

\* PIXEL_CODE of the drawing functions, run at each offset of a traversal in
\* turn: image.set_unsafe(offset, blend(image.get_unsafe(offset), color, mode)).
\* mems is the set of the memories that the traversal can have produced.
RECURSIVE Travel(_, _, _, _, _, _)
Travel(mems, format, offsets, i, color, mode) ==
    IF i > Len(offsets) \/ mems = {} THEN mems
    ELSE Travel(UNION {{set_unsafe(m, format, offsets[i], c) :
                           c \in blend(get_unsafe(m, format, offsets[i]), color, mode)} :
                       m \in mems},
                format, offsets, i + 1, color, mode)

\* The pixels after PIXEL_CODE has run at the offsets, in their order.
Drawn(h, offsets, color, mode) ==
    /\ Running
    /\ Usable(h)
    /\ \E visited \in {offsets} :
       \E mem \in Travel({PixelsOf(h)}, img[h].m_format, visited, 1, color, mode) :
          heap' = [heap EXCEPT ![img[h].m_pixels].mem = mem]

\* The drawing function has run PIXEL_CODE at the offsets, in their order.
Draw(h, offsets, color, mode) ==
    /\ Drawn(h, offsets, color, mode)
    /\ writes' = writes + 1
    /\ UNCHANGED <<img, signal, arg, ramp>>

\* std::clamp(v, lo, hi)
std_clamp(v, lo, hi) == IF v < lo THEN lo ELSE IF hi < v THEN hi ELSE v

\* PF_RECT_TRAVEL: the offsets of the rows ymin..ymax, each from xmin to xmax.
RECURSIVE RectTravel(_, _, _, _, _, _)
RectTravel(w, xmin, xmax, ymax, x, y) ==
    IF y > ymax THEN <<>>
    ELSE IF x > xmax THEN RectTravel(w, xmin, xmax, ymax, xmin, y + 1)
    ELSE <<(y * w) + x>> \o RectTravel(w, xmin, xmax, ymax, x + 1, y)

\* The offsets that rectangle(image, x1, y1, x2, y2, color, mode) draws.
RectOffsets(w, h, x1, y1, x2, y2) ==
    LET xmin == std_clamp(Min(x1, x2), 0, w - 1)
        ymin == std_clamp(Min(y1, y2), 0, h - 1)
        xmax == std_clamp(Max(x1, x2), 0, w - 1)
        ymax == std_clamp(Max(y1, y2), 0, h - 1)
    IN RectTravel(w, xmin, xmax, ymax, xmin, ymin)

\* rectangle(image, x1, y1, x2, y2, color, mode)
Rectangle(h, x1, y1, x2, y2, color, mode) ==
    /\ Draw(h, RectOffsets(img[h].m_w, img[h].m_h, x1, y1, x2, y2), color, mode)
    /\ last' = [NoOp EXCEPT !.op = "rectangle", !.h = h, !.x = x1, !.y = y1,
                            !.rx = x2, !.ry = y2, !.color = color, !.mode = mode]

\* for (int i = c - half; i <= c + half; ++i) { ... } of PF_CIRCLE_TRAVEL: the
\* offsets at column i of the rows row_a and row_b that lie in the image.
RECURSIVE CircleSpan(_, _, _, _, _, _)
CircleSpan(w, h, i, last_i, row_a, row_b) ==
    IF i > last_i THEN <<>>
    ELSE (IF i >= 0 /\ i < w
          THEN (IF row_a >= 0 /\ row_a < h THEN <<(row_a * w) + i>> ELSE <<>>)
               \o (IF row_b >= 0 /\ row_b < h THEN <<(row_b * w) + i>> ELSE <<>>)
          ELSE <<>>)
         \o CircleSpan(w, h, i + 1, last_i, row_a, row_b)

\* PF_CIRCLE_TRAVEL: while (y >= x) { ... }
RECURSIVE CircleTravel(_, _, _, _, _, _, _)
CircleTravel(w, h, cx, cy, x, y, d) ==
    IF y < x THEN <<>>
    ELSE CircleSpan(w, h, cx - x, cx + x, cy + y, cy - y)
         \o CircleSpan(w, h, cx - y, cx + y, cy + x, cy - x)
         \o (IF d > 0
             THEN CircleTravel(w, h, cx, cy, x + 1, y - 1, d + (4 * ((x + 1) - (y - 1))) + 10)
             ELSE CircleTravel(w, h, cx, cy, x + 1, y, d + (4 * (x + 1)) + 6))

\* circle(image, cx, cy, radius, color, mode)
Circle(h, cx, cy, radius, color, mode) ==
    /\ Draw(h, CircleTravel(img[h].m_w, img[h].m_h, cx, cy, 0, radius, 3 - (2 * radius)),
            color, mode)
    /\ last' = [NoOp EXCEPT !.op = "circle", !.h = h, !.x = cx, !.y = cy,
                            !.rx = radius, !.color = color, !.mode = mode]

----------------------------------------------------------------------------
(* The drawing specification: an RGBA_U8 image whose pixels differ from one *)
(* another is flipped, or a rectangle or a circle is drawn on it.           *)

\* The color of pixel o of the image of the run.
PatternColor(seed, o) == SampleColor((seed + (37 * o)) % 256)

RECURSIVE PatternPixels(_, _, _, _, _)
PatternPixels(mem, format, i, n, seed) ==
    IF i >= n \/ MemSize(mem) = 0 THEN mem
    ELSE PatternPixels(set_unsafe(mem, format, i, PatternColor(seed, i)), format, i + 1, n, seed)

PatternMem(format, w, h, seed) ==
    PatternPixels(FillMem(w * h * pixel_size(format), 0), format, 0, w * h, seed)

DrawSeeds  == {0, 50, 100, 200}
DrawColors == {RED, Color(100, 200, 0, 0)}
DrawModes  == {"REPLACE", "ADD"}
RectXs     == {-2, 0, ImgW - 1, ImgW + 1}
RectYs     == {-2, 0, ImgH - 1, ImgH + 1}
CircleXs   == {-1, 0, ImgW - 1, ImgW}
CircleYs   == {-1, 0, ImgH - 1, ImgH}
Radii      == {-1, 0, 1, 2}

DrawInit ==
    /\ arg \in DrawSeeds
    /\ heap = [b \in BufIds |->
                 IF b = 1 THEN LiveBuf(PatternMem("RGBA_U8", ImgW, ImgH, arg), TRUE, FALSE)
                          ELSE NoBuf]
    /\ img = [i \in Handles |->
                 IF i = 1 THEN NewImage(1, "RGBA_U8", ImgW, ImgH, TRUE, 0) ELSE NoImage]
    /\ signal = "none"
    /\ last = NoOp
    /\ writes = 0
    /\ ramp = NoRamp

DrawNext ==
    \/ /\ writes = 0 \/ (writes = 1 /\ last.op = "flip_horizontal")
       /\ FlipHorizontal(1)
    \/ \E x1 \in RectXs, y1 \in RectYs, x2 \in RectXs, y2 \in RectYs :
       \E color \in DrawColors, mode \in DrawModes :
          writes = 0 /\ Rectangle(1, x1, y1, x2, y2, color, mode)
    \/ \E cx \in CircleXs, cy \in CircleYs, radius \in Radii :
       \E color \in DrawColors, mode \in DrawModes :
          writes = 0 /\ Circle(1, cx, cy, radius, color, mode)

DrawSpec == DrawInit /\ [][DrawNext]_vars

\* The pixels of the image before the call, and now.
Before == Pixels([heap EXCEPT ![1].mem = PatternMem("RGBA_U8", ImgW, ImgH, arg)], img[1])
Now    == Pixels(heap, img[1])

\* C23: after flip_horizontal pixel (x, y) holds the color that pixel
\* (W-1-x, y) held before the call, and after a second flip_horizontal the
\* image is the original one.
C23_FlipHorizontalMirrors ==
    (last.op = "flip_horizontal") =>
        /\ writes = 1 =>
              \A x \in 0..(ImgW - 1), y \in 0..(ImgH - 1) :
                 Now[(y * ImgW) + x] = Before[(y * ImgW) + (ImgW - 1 - x)]
        /\ writes = 2 => Now = Before

\* C24: rectangle changes only pixels of the canvas that lie in
\* [min(x1,x2), max(x1,x2)] x [min(y1,y2), max(y1,y2)].
C24_RectangleStaysInside ==
    (last.op = "rectangle") =>
        \A x \in 0..(ImgW - 1), y \in 0..(ImgH - 1) :
           Now[(y * ImgW) + x] # Before[(y * ImgW) + x] =>
              /\ Min(last.x, last.rx) <= x /\ x <= Max(last.x, last.rx)
              /\ Min(last.y, last.ry) <= y /\ y <= Max(last.y, last.ry)

\* The offsets that circle visits.
Covered ==
    LET offsets == CircleTravel(ImgW, ImgH, last.x, last.y, 0, last.rx, 3 - (2 * last.rx))
    IN {offsets[i] : i \in 1..Len(offsets)}

\* C29: after circle every pixel that it covers is blend(old pixel, color,
\* mode) applied once, and every other pixel is unchanged.
C29_CircleBlendsOnce ==
    (last.op = "circle") =>
        \A o \in 0..((ImgW * ImgH) - 1) :
           IF o \in Covered THEN Now[o] \in blend(Before[o], last.color, last.mode)
                            ELSE Now[o] = Before[o]

----------------------------------------------------------------------------
(* The per-color adjustments (src/include/BPX/algorithm.hpp).  A factor is  *)
(* given in eighths, so that 1.0f + factor is exact.                        *)

\* a < b
FLess(a, b) ==
    IF b.m = 0 THEN FALSE
    ELSE IF a.m = 0 THEN TRUE
    ELSE a.e < b.e \/ (a.e = b.e /\ a.m < b.m)

\* std::clamp(factor, -1.0f, 1.0f)
ClampFactor(factor) == Max(-8, Min(factor, 8))

\* One channel of brightness.
BrightnessChannel(ch, factor) ==
    LET f == ClampFactor(factor)
    IN IF f < 0
       THEN U8(FTrunc(FMul(IntToFloat(ch), PosToFloat(8 + f))))
       ELSE U8(FTrunc(FAdd(FMul(IntToFloat(255 - ch), PosToFloat(f)), IntToFloat(ch))))

brightness(color, factor) ==
    Color(BrightnessChannel(color.r, factor), BrightnessChannel(color.g, factor),
          BrightnessChannel(color.b, factor), color.a)

\* rf = ch / 255.0f; rf -= 0.5f; rf *= factor; rf += 0.5f; clamped to 0..1 and
\* scaled by 255, with factor = (1 + factor)^2.  Below one half the difference
\* is negative: its magnitude is computed, and the sum is clamped to 0 where
\* it is negative.
ContrastChannel(ch, factor) ==
    LET one    == IntToFloat(1)
        half   == PosToFloat(4)
        f1     == PosToFloat(8 + ClampFactor(factor))
        f2     == FMul(f1, f1)
        rf     == FDiv(IntToFloat(ch), IntToFloat(255))
        scaled == IF FLess(rf, half)
                  THEN LET p == FMul(FSub(half, rf), f2)
                       IN IF FLess(half, p) THEN FZero ELSE FSub(half, p)
                  ELSE FAdd(FMul(FSub(rf, half), f2), half)
        clamped == IF FLess(one, scaled) THEN one ELSE scaled
    IN U8(FTrunc(FMul(clamped, IntToFloat(255))))

\* return { rf * 255, bf * 255, gf * 255, color.a }
contrast(color, factor) ==
    Color(ContrastChannel(color.r, factor), ContrastChannel(color.b, factor),
          ContrastChannel(color.g, factor), color.a)

invert(color) == Color(U8(255 - color.r), U8(255 - color.g), U8(255 - color.b), color.a)

grayscale(color) ==
    LET gray == U8((color.r + color.g + color.b) \div 3)
    IN Color(gray, gray, gray, color.a)

\* return Color { lum, lum, color.a }: the fourth argument of the constructor
\* has its default value.
luminance(color) ==
    LET lum == luminance_value(color)
    IN Color(lum, lum, color.a, 255)

FactorSamples == {-12, -8, -5, -1, 0, 2, 4, 8, 12}

Adjust(op, factor, ret) ==
    /\ last' = [NoOp EXCEPT !.op = op, !.x = factor, !.color = arg, !.ret = ret]
    /\ UNCHANGED <<heap, img, signal, arg, writes, ramp>>

AdjustNext ==
    \/ \E factor \in FactorSamples : Fresh /\ Adjust("brightness", factor, brightness(arg, factor))
    \/ \E factor \in FactorSamples : Fresh /\ Adjust("contrast", factor, contrast(arg, factor))
    \/ Fresh /\ Adjust("invert", 0, invert(arg))
    \/ Fresh /\ Adjust("grayscale", 0, grayscale(arg))
    \/ Fresh /\ Adjust("luminance", 0, luminance(arg))

AdjustSpec == ColorInit /\ [][AdjustNext]_vars

\* C25: brightness, contrast, invert, grayscale and luminance return the alpha
\* of their argument, and grayscale and luminance return a color with
\* r = g = b.
C25_AdjustmentsKeepAlpha ==
    /\ last.op \in {"brightness", "contrast", "invert", "grayscale", "luminance"} =>
          last.ret.a = arg.a
    /\ last.op \in {"grayscale", "luminance"} =>
          (last.ret.r = last.ret.g /\ last.ret.g = last.ret.b)

\* Values of the blue channel on both sides of one half.
BlueSamples == {0, 1, 64, 127, 128, 200, 254, 255}

\* C26: the red and the green of contrast(color, factor) are those of
\* contrast(c2, factor) for every color c2 that differs from color in blue
\* only.
C26_ContrastPerChannel ==
    (last.op = "contrast") =>
        \A blue \in BlueSamples :
           LET other == contrast([arg EXCEPT !.b = blue], last.x)
           IN other.r = last.ret.r /\ other.g = last.ret.g

----------------------------------------------------------------------------
(* The frame of set_unsafe.                                                 *)

\* The image of the codec specification as it was constructed.
ConstructedImage == NewImage(1, TheFormat, ImgW, 1, TRUE, 0)

\* The pixels of the image of the codec specification as it was constructed.
ConstructedPixels ==
    LET n == ImgW
        mem == FillPixels(FillMem(n * pixel_size(TheFormat), 0), TheFormat, n, BLANK)
    IN [o \in 0..(n - 1) |-> get_unsafe(mem, TheFormat, o)]

\* C28: set_unsafe(o, c) changes pixel o only: in every format every other
\* pixel reads as before, and the width, the height, the format and the
\* ownership of the image are unchanged.
C28_SetUnsafeChangesOnePixel ==
    (last.op = "set_unsafe" /\ writes = 1) =>
        /\ \A p \in 0..(ImgW - 1) :
              p # last.x => Pixels(heap, img[1])[p] = ConstructedPixels[p]
        /\ img[1] = ConstructedImage

\* set_unsafe wrote pixel 0 of an RGBA_F16 image, which now reads differently,
\* while pixel 1 reads as before.
C28_Witness ==
    /\ last.op = "set_unsafe" /\ writes = 1 /\ last.x = 0
    /\ TheFormat = "RGBA_F16"
    /\ Pixels(heap, img[1])[0] # ConstructedPixels[0]
    /\ Pixels(heap, img[1])[1] = ConstructedPixels[1]

----------------------------------------------------------------------------
(* int arithmetic of 32 bits, as a build that wraps signed overflow          *)
(* computes it.  No intermediate value leaves the range of an int.          *)

\* The element of a set of one element.  An operand that is drawn from such a
\* set is evaluated once, however often the expression refers to it.
The(S) == CHOOSE x \in S : TRUE

IntMax == 2147483647
IntMin == -IntMax - 1

\* a + b
WrapAdd(a, b) ==
    IF a >= 0 /\ b >= 0
    THEN IF a > IntMax - b THEN (((a - 1073741824) - 1073741824) + b) + IntMin ELSE a + b
    ELSE IF a < 0 /\ b < 0
    THEN IF a < IntMin - b THEN (((a + 1073741824) + 1073741824) + b) + IntMax + 1 ELSE a + b
    ELSE a + b

\* a - b
WrapSub(a, b) == IF b = IntMin THEN WrapAdd(WrapAdd(a, IntMax), 1) ELSE WrapAdd(a, -b)

AddOverflows(a, b)  == (a >= 0 /\ b >= 0 /\ a > IntMax - b) \/ (a < 0 /\ b < 0 /\ a < IntMin - b)
SubOverflows(a, b)  == IF b = IntMin THEN a >= 0 ELSE AddOverflows(a, -b)

\* The product of two 16-bit values as the halves of a 32-bit word.
Mul16(a, b) ==
    LET p0  == a * (b % 256)
        p1  == a * (b \div 256)
        low == p0 + ((p1 % 256) * 256)
    IN [hi |-> ((p1 \div 256) + (low \div 65536)) % 65536, lo |-> low % 65536]

\* a * b
WrapMul32(a, b) ==
    LET ll == Mul16(IntLo(a), IntLo(b))
        hi == (ll.hi + Mul16(IntHi(a), IntLo(b)).lo + Mul16(IntLo(a), IntHi(b)).lo) % 65536
    IN IF hi >= 32768 THEN ((hi - 65536) * 65536) + ll.lo ELSE (hi * 65536) + ll.lo

\* a / b for b # 0 and not IntMin / -1: the quotient truncated toward zero.
TruncDiv(a, b) ==
    LET Pos(n, d) == IF n >= 0 \/ n % d = 0 THEN n \div d ELSE (n \div d) + 1
    IN IF b > 0 THEN Pos(a, b)
       ELSE IF b = IntMin THEN (IF a = IntMin THEN 1 ELSE 0)
       ELSE -Pos(a, -b)

\* a / b where IntMin / -1, which traps, is left as IntMin.
Quot(a, b) == IF a = IntMin /\ b = -1 THEN IntMin ELSE TruncDiv(a, b)

\* a * b does not fit an int.
MulOverflows32(a, b) ==
    /\ b # 0
    /\ IF b = -1 THEN a = IntMin ELSE TruncDiv(WrapMul32(a, b), b) # a

----------------------------------------------------------------------------
(* clip_line and line (src/src/algorithm.cpp).                              *)

CLIP_LEFT   == 1
CLIP_RIGHT  == 2
CLIP_BOTTOM == 4
CLIP_TOP    == 8

encode_point(x, y, xmin, ymin, xmax, ymax) ==
    (IF x < xmin THEN CLIP_LEFT ELSE 0) + (IF x > xmax THEN CLIP_RIGHT ELSE 0)
    + (IF y < ymin THEN CLIP_TOP ELSE 0) + (IF y > ymax THEN CLIP_BOTTOM ELSE 0)

\* The state of clip_line when it enters its loop.
ClipEnter(x1, y1, x2, y2, xmax, ymax) ==
    [x1 |-> x1, y1 |-> y1, x2 |-> x2, y2 |-> y2,
     code1 |-> encode_point(x1, y1, 0, 0, xmax, ymax),
     code2 |-> encode_point(x2, y2, 0, 0, xmax, ymax),
     dx |-> WrapSub(x2, x1), dy |-> WrapSub(y2, y1),
     xmax |-> xmax, ymax |-> ymax, st |-> "loop"]

\* The operands of the clipped coordinate, c += num * (edge - from) / den, of
\* the pass that the state is about to make.
ClipOperands(s) ==
    LET code_out == IF s.code1 # 0 THEN s.code1 ELSE s.code2
    IN IF BitAnd(code_out, CLIP_LEFT) # 0
       THEN [c |-> s.y1, num |-> s.dy, edge |-> 0, from |-> s.x1, den |-> s.dx]
       ELSE IF BitAnd(code_out, CLIP_RIGHT) # 0
       THEN [c |-> s.y1, num |-> s.dy, edge |-> s.xmax, from |-> s.x1, den |-> s.dx]
       ELSE IF BitAnd(code_out, CLIP_BOTTOM) # 0
       THEN [c |-> s.x1, num |-> s.dx, edge |-> s.ymax, from |-> s.y1, den |-> s.dy]
       ELSE [c |-> s.x1, num |-> s.dx, edge |-> 0, from |-> s.y1, den |-> s.dy]

ClipDecided(s) == (s.code1 = 0 /\ s.code2 = 0) \/ BitAnd(s.code1, s.code2) # 0

\* The pass evaluates an expression whose value does not fit an int, or divides
\* the least int by -1.
ClipUndefined(s) ==
    LET p == ClipOperands(s)
    IN /\ ~ClipDecided(s)
       /\ p.den # 0
       /\ \/ SubOverflows(p.edge, p.from)
          \/ MulOverflows32(p.num, WrapSub(p.edge, p.from))
          \/ (WrapMul32(p.num, WrapSub(p.edge, p.from)) = IntMin /\ p.den = -1)
          \/ AddOverflows(p.c, Quot(WrapMul32(p.num, WrapSub(p.edge, p.from)), p.den))

\* c + num * (edge - from) / den, overflow wrapping.
ClipMoved(p) ==
    IF p.den = 0 THEN p.c
    ELSE The({WrapAdd(p.c, quotient) :
                quotient \in {Quot(product, p.den) :
                   product \in {WrapMul32(p.num, distance) :
                      distance \in {WrapSub(p.edge, p.from)}}}})

\* The end of the pass: the point that code_out names is replaced by (x, y).
ClipReplace(s, x, y) ==
    IF s.code1 # 0
    THEN [s EXCEPT !.code1 = encode_point(x, y, 0, 0, s.xmax, s.ymax), !.x1 = x, !.y1 = y]
    ELSE [s EXCEPT !.code2 = encode_point(x, y, 0, 0, s.xmax, s.ymax), !.x2 = x, !.y2 = y]

\* One pass of for (;;) { ... } of clip_line, overflow wrapping.
ClipPass(s) ==
    IF s.code1 = 0 /\ s.code2 = 0 THEN [s EXCEPT !.st = "accept"]
    ELSE IF BitAnd(s.code1, s.code2) # 0 THEN [s EXCEPT !.st = "reject"]
    ELSE LET code_out == IF s.code1 # 0 THEN s.code1 ELSE s.code2
             horizontal == BitAnd(code_out, CLIP_LEFT) # 0 \/ BitAnd(code_out, CLIP_RIGHT) # 0
         IN The({IF horizontal THEN ClipReplace(s, p.edge, moved)
                               ELSE ClipReplace(s, moved, p.edge) :
                    moved \in {ClipMoved(p) : p \in {ClipOperands(s)}},
                    p \in {ClipOperands(s)}})

\* The pass divides the least int by -1.
ClipTraps(s) ==
    LET p == ClipOperands(s)
    IN ~ClipDecided(s) /\ p.den = -1 /\ WrapMul32(p.num, WrapSub(p.edge, p.from)) = IntMin

\* clip_line on endpoints for which no pass overflows.
RECURSIVE ClipLoop(_)
ClipLoop(s) == IF s.st # "loop" THEN s ELSE The({ClipLoop(t) : t \in {ClipPass(s)}})

clip_line(x1, y1, x2, y2, xmax, ymax) ==
    The({ClipLoop(s) : s \in {ClipEnter(x1, y1, x2, y2, xmax, ymax)}})

\* for (int i = 0, j = 0; i != end; i += sign, j += dec) { ... } of
\* PF_LINE_TRAVEL: the offsets in the order of the loop.
RECURSIVE LineSteps(_, _, _, _, _, _, _, _, _)
LineSteps(w, x1, y1, end, sign, dec, y_longer, i, j) ==
    IF i = end THEN <<>>
    ELSE LET x == IF y_longer THEN x1 + (j \div 65536) ELSE x1 + i
             y == IF y_longer THEN y1 + i ELSE y1 + (j \div 65536)
         IN <<(y * w) + x>> \o LineSteps(w, x1, y1, end, sign, dec, y_longer, i + sign, j + dec)

\* PF_LINE_TRAVEL after clip_line has accepted the line.
LineTravel(w, x1, y1, x2, y2) ==
    LET y_longer  == Abs(y2 - y1) > Abs(x2 - x1)
        short_len == IF y_longer THEN x2 - x1 ELSE y2 - y1
        end       == IF y_longer THEN y2 - y1 ELSE x2 - x1
        sign      == IF end < 0 THEN -1 ELSE 1
        long_len  == Abs(end)
        dec       == IF long_len = 0 THEN 0 ELSE TruncDiv(short_len * 65536, long_len)
    IN LineSteps(w, x1, y1, end, sign, dec, y_longer, 0, 0)

\* The offsets that line(image, x1, y1, x2, y2, color, mode) draws.
LineOffsets(w, h, x1, y1, x2, y2) ==
    The({IF s.st = "accept" THEN LineTravel(w, s.x1, s.y1, s.x2, s.y2) ELSE <<>> :
            s \in {clip_line(x1, y1, x2, y2, w - 1, h - 1)}})

----------------------------------------------------------------------------
(* The line specification: line(image, x1, y1, x2, y2, RED) on an RGBA_U8   *)
(* image, one pass of the loop of clip_line at a time.                      *)

LineXs == {-2, 0, ImgW - 1, ImgW + 1}
LineYs == {-2, 0, ImgH - 1, ImgH + 1}

\* Endpoints around the canvas, and endpoints far from it.
LineInputs ==
    {[x1 |-> a, y1 |-> b, x2 |-> c, y2 |-> d] : a \in LineXs, b \in LineYs, c \in LineXs, d \in LineYs}
    \cup {[x1 |-> 0, y1 |-> -1073741824, x2 |-> ImgW, y2 |-> 0],
          [x1 |-> -1, y1 |-> IntMin, x2 |-> 0, y2 |-> IntMax],
          [x1 |-> 0, y1 |-> 65536, x2 |-> 65536, y2 |-> 1]}

LineInit ==
    /\ arg \in LineInputs
    /\ \E junk \in JunkBytes : SolidImageState("RGBA_U8", ImgW, ImgH, BLANK, junk)

\* line is called and clip_line reaches its loop.
LineCall ==
    /\ Running
    /\ Fresh
    /\ last' = [op |-> "clip_line", steps |-> 0,
                clip |-> ClipEnter(arg.x1, arg.y1, arg.x2, arg.y2, ImgW - 1, ImgH - 1)]
    /\ UNCHANGED <<heap, img, signal, arg, writes, ramp>>

\* One pass of the loop in a build that wraps.
ClipStep ==
    /\ Running
    /\ last.op = "clip_line" /\ last.clip.st = "loop"
    /\ ~ClipTraps(last.clip)
    /\ last' = [last EXCEPT !.clip = ClipPass(@)]
    /\ UNCHANGED <<heap, img, signal, arg, writes, ramp>>

\* One pass of the loop in a build that traps: the division of the least int
\* by -1 raises SIGFPE, an overflow checked by the build aborts.
ClipTrap ==
    /\ Running
    /\ last.op = "clip_line" /\ last.clip.st = "loop"
    /\ ClipUndefined(last.clip)
    /\ signal' = IF ClipTraps(last.clip) THEN "SIGFPE" ELSE "SIGABRT"
    /\ UNCHANGED <<heap, img, last, arg, writes, ramp>>

\* clip_line returned 0: line returns.
LineRejected ==
    /\ Running
    /\ last.op = "clip_line" /\ last.clip.st = "reject"
    /\ last' = [last EXCEPT !.op = "line"]
    /\ UNCHANGED <<heap, img, signal, arg, writes, ramp>>

\* clip_line returned 1: the traversal draws the line, and line returns.
LineAccepted ==
    /\ last.op = "clip_line" /\ last.clip.st = "accept"
    /\ LET offsets == LineTravel(ImgW, last.clip.x1, last.clip.y1, last.clip.x2, last.clip.y2)
       IN /\ Draw(1, offsets, RED, "REPLACE")
          /\ last' = [last EXCEPT !.op = "line", !.steps = Len(offsets)]

LineNext ==
    \/ LineCall
    \/ ClipStep
    \/ ClipTrap
    \/ LineRejected
    \/ LineAccepted

\* A thread that can take a step takes it.
LineSpec == LineInit /\ [][LineNext]_vars /\ WF_vars(LineNext)

\* line has returned, or the program has been stopped by a signal.
LineEnded == last.op = "line" \/ signal # "none"

\* C27: line ends for every pair of endpoints: clip_line accepts or rejects
\* after finitely many passes, and the traversal makes at most max(W, H)
\* steps.
C27_LineTerminates ==
    /\ <>LineEnded
    /\ [](last.op = "line" => last.steps <= Max(ImgW, ImgH))

----------------------------------------------------------------------------
(* The thick line and the pattern generators (src/src/algorithm.cpp,        *)
(* src/src/generation.cpp).                                                 *)

\* sqrtf((float)(dx*dx + dy*dy)) of a line along an axis, as the generators
\* draw them: one of dx and dy is 0.
AxisLength(dx, dy) == IF dy = 0 THEN Abs(dx) ELSE Abs(dy)

\* int w = (thick - 1) * sqrtf(...) / (2 * abs(d))
HalfThickness(thick, dx, dy, d) ==
    The({IF thick >= 1 THEN magnitude ELSE -magnitude :
            magnitude \in {FTrunc(quotient) :
               quotient \in {FDiv(product, divisor) :
                  product \in {FMul(a, b) : a \in {IntToFloat(Abs(thick - 1))},
                                            b \in {IntToFloat(AxisLength(dx, dy))}},
                  divisor \in {IntToFloat(2 * Abs(d))}}}})

\* for (int i = 1; i <= w; ++i) { ... } of PF_LINE_THICK_TRAVEL: the lines
\* shifted by -i and by +i, along y where sideways is FALSE and along x where
\* it is TRUE.
RECURSIVE ThickSides(_, _, _, _, _, _, _, _, _)
ThickSides(w, h, x1, y1, x2, y2, sideways, i, n) ==
    IF i > n THEN <<>>
    ELSE (IF sideways
          THEN LineOffsets(w, h, x1 - i, y1, x2 - i, y2) \o LineOffsets(w, h, x1 + i, y1, x2 + i, y2)
          ELSE LineOffsets(w, h, x1, y1 - i, x2, y2 - i) \o LineOffsets(w, h, x1, y1 + i, x2, y2 + i))
         \o ThickSides(w, h, x1, y1, x2, y2, sideways, i + 1, n)

\* The offsets that line(image, x1, y1, x2, y2, thick, color, mode) draws.
ThickLineOffsets(w, h, x1, y1, x2, y2, thick) ==
    LET dx == x2 - x1
        dy == y2 - y1
    IN LineOffsets(w, h, x1, y1, x2, y2)
       \o (IF dx # 0 /\ Abs(TruncDiv(dy, IF dx = 0 THEN 1 ELSE dx)) < 1
           THEN The({ThickSides(w, h, x1, y1, x2, y2, FALSE, 1, wy) :
                        wy \in {HalfThickness(thick, dx, dy, dx)}})
           ELSE IF dy # 0
           THEN The({ThickSides(w, h, x1, y1, x2, y2, TRUE, 1, wx) :
                        wx \in {HalfThickness(thick, dx, dy, dy)}})
           ELSE <<>>)

\* x / size + y / size where the size is 0: the division traps, or gives 0.
CellIndex(x, y, square_size) ==
    IF square_size = 0 THEN 0 ELSE TruncDiv(x, square_size) + TruncDiv(y, square_size)

\* The generator has been called and has constructed its image.  pass is the
\* parity of the number of loop passes the generator has made.
GenCall ==
    /\ Running
    /\ Fresh
    /\ last' = [op |-> arg.gen, pc |-> "rows", x |-> 0, y |-> 0, pass |-> 0]
    /\ UNCHANGED <<heap, img, signal, arg, writes, ramp>>

\* The next location of the two nested loops over y and x after the body at
\* (x, y), or after the test of x has failed.
NestedNext(square_size) ==
    IF last.x < img[1].m_w THEN [last EXCEPT !.x = @ + square_size, !.pass = 1 - @]
                           ELSE [last EXCEPT !.x = 0, !.y = @ + square_size]

\* The offsets that the body of the nested loops draws at (x, y).
NestedBody(offsets) ==
    IF last.x < img[1].m_w /\ CellIndex(last.x, last.y, arg.size) % 2 = 0 THEN offsets ELSE <<>>

\* One step of the loops of generate_checkerboard in a build where the
\* division by 0 does not trap.
CheckerboardStep ==
    /\ last.op = "generate_checkerboard" /\ last.pc = "rows"
    /\ IF last.y < img[1].m_h
       THEN /\ Drawn(1, NestedBody(RectOffsets(img[1].m_w, img[1].m_h, last.x, last.y,
                                               last.x + arg.size, last.y + arg.size)),
                     arg.color, "REPLACE")
            /\ last' = NestedNext(arg.size)
       ELSE /\ Running
            /\ last' = [last EXCEPT !.pc = "returned"]
            /\ heap' = heap
    /\ UNCHANGED <<img, signal, arg, writes, ramp>>

\* One step of the loops of generate_stripes.
StripesStep ==
    /\ last.op = "generate_stripes" /\ last.pc = "rows"
    /\ IF last.y < img[1].m_h
       THEN /\ Drawn(1, NestedBody(IF arg.vertical
                                   THEN ThickLineOffsets(img[1].m_w, img[1].m_h, last.x, 0,
                                                         last.x, img[1].m_h, arg.size)
                                   ELSE ThickLineOffsets(img[1].m_w, img[1].m_h, 0, last.y,
                                                         img[1].m_w, last.y, arg.size)),
                     arg.color, "REPLACE")
            /\ last' = NestedNext(arg.size)
       ELSE /\ Running
            /\ last' = [last EXCEPT !.pc = "returned"]
            /\ heap' = heap
    /\ UNCHANGED <<img, signal, arg, writes, ramp>>

\* x / size with size 0 in a build where the division traps.
DivisionTrap ==
    /\ Running
    /\ last.op \in {"generate_checkerboard", "generate_stripes"} /\ last.pc = "rows"
    /\ last.y < img[1].m_h /\ last.x < img[1].m_w
    /\ arg.size = 0
    /\ signal' = "SIGFPE"
    /\ UNCHANGED <<heap, img, last, arg, writes, ramp>>

\* One step of the two loops of generate_grid.
GridStep ==
    /\ last.op = "generate_grid"
    /\ \/ /\ last.pc = "rows" /\ last.y <= img[1].m_h
          /\ Drawn(1, LineOffsets(img[1].m_w, img[1].m_h, 0, last.y, img[1].m_w, last.y),
                   arg.color, "REPLACE")
          /\ last' = [last EXCEPT !.y = @ + arg.size, !.pass = 1 - @]
       \/ /\ last.pc = "rows" /\ last.y > img[1].m_h
          /\ Running
          /\ last' = [last EXCEPT !.pc = "cols"]
          /\ heap' = heap
       \/ /\ last.pc = "cols" /\ last.x <= img[1].m_w
          /\ Drawn(1, LineOffsets(img[1].m_w, img[1].m_h, last.x, 0, last.x, img[1].m_h),
                   arg.color, "REPLACE")
          /\ last' = [last EXCEPT !.x = @ + arg.size, !.pass = 1 - @]
       \/ /\ last.pc = "cols" /\ last.x > img[1].m_w
          /\ Running
          /\ last' = [last EXCEPT !.pc = "returned"]
          /\ heap' = heap
    /\ UNCHANGED <<img, signal, arg, writes, ramp>>

\* Sizes from 0 to beyond the image.
GenSizes  == 0..(ImgW + 1)
GenColors == {WHITE, RED}

GenInputs ==
    {[gen |-> g, size |-> n, color |-> c, vertical |-> v] :
        g \in {"generate_checkerboard", "generate_stripes", "generate_grid"},
        n \in GenSizes, c \in GenColors, v \in BOOLEAN}

GenInit ==
    /\ arg \in GenInputs
    /\ \E junk \in JunkBytes : SolidImageState("RGBA_U8", ImgW, ImgH, BLACK, junk)

GenNext ==
    \/ GenCall
    \/ CheckerboardStep
    \/ StripesStep
    \/ DivisionTrap
    \/ GridStep

\* A thread that can take a step takes it.
GenSpec == GenInit /\ [][GenNext]_vars /\ WF_vars(GenNext)

\* The generator has returned, or the program has been stopped by a signal.
GenEnded == (last.op # "none" /\ last.pc = "returned") \/ signal # "none"

\* C30: generate_checkerboard, generate_stripes and generate_grid end for
\* every size, a size of 0 included.
C30_GeneratorsTerminate == <>GenEnded

====
